---- MODULE Spec2Model ----
(***************************************************************************)
(* django-fast-treenode: the adjacency table with its materialized path,  *)
(* the deferred task queue that rebuilds (priority, _path, _depth), the   *)
(* path compiler, the node API (save / move_to / set_parent /             *)
(* set_priority / delete) and the read cache.                             *)
(*                                                                         *)
(* A _path is a sequence of one-character strings, so that formatting,    *)
(* padding, prefix matching and counting of '.' are computed, not assumed. *)
(***************************************************************************)
EXTENDS Integers, Sequences, FiniteSets, TLC

\* ---------------------------------------------------------------------
\* Bounds of the model
\* ---------------------------------------------------------------------

\* rows of the table in the single-writer specification
MaxId == 4
\* operations a single-writer behaviour is followed for
MaxSteps == 2
\* tasks already queued when a save may still be issued
MaxQueue == 1

\* pks of the cached calls
KeyMaxId == 2

\* rows, and operations followed, where each call is noted
OpsMaxId == 3
OpsSteps == 2

\* rows and calls where _get_place is tried on every position
PlaceMaxId == 3
PlaceSteps == 1

\* rows at the start, operations followed and instances of one call where
\* rows are created and updated in bulk
BulkMaxId == 3
BulkSteps == 2
BulkMax == 2

\* rows and operations followed where the tree is dumped and loaded
TreeMaxId == 3
TreeSteps == 3

\* rows, operations followed and tasks queued where tasks are queued by hand
CoalesceMaxId == 4
CoalesceSteps == 3
CoalesceQueue == 2

\* rows, operations followed and tasks queued where priorities change and
\* tasks are queued by hand
RebuildMaxId == 3
RebuildSteps == 4
RebuildQueue == 3

\* rows and operations followed where roots are added
RootsMaxId == 2
RootsSteps == 3

\* rows of the tables _optimize is run on with every set of queued ids
OptimizeMaxId == 4
OptimizeSteps == 1
OptimizeQueue == 3

\* rows, values of the custom sorting field and operations followed where the
\* sorting of a model is configured
SortMaxId == 2
SortMaxName == 1
SortSteps == 2

\* rows and operations followed where move_node is called
MoveMaxId == 3
MoveSteps == 3

\* rows and save() calls followed where two connections create nodes
IdsMaxId == 2
IdsSteps == 3

\* rows and operations followed where the transaction of run() is followed
TxnMaxId == 2
TxnSteps == 4

\* the cache object: operations followed, the limit and the sizes of values
\* in the same unit
ObjMaxSteps == 6
ObjLimit == 5
ObjMaxSize == 6

\* rows and operations followed where the tree is queried
QueryMaxId == 3
QuerySteps == 2

\* rows and operations followed where nodes are created at given priorities
OverflowMaxId == 2
OverflowSteps == 3

\* the compiler applied to any table: ids 1..CompileMaxId, CompileSteps calls
CompileMaxId == 3
CompileSteps == 2

\* rows, operations followed and tasks queued where nodes are appended
AppendMaxId == 3
AppendSteps == 3
AppendQueue == 3
\* rows of the table, and operations followed, with cached reads
CacheMaxId == 3
CacheSteps == 3
\* rows of the table, and steps followed, with two writers
ConcMaxId == 2
ConcSteps == 5

\* ---------------------------------------------------------------------
\* Program constants
\* ---------------------------------------------------------------------

SEGMENT_LENGTH == 3

SEGMENT_BASE == 16

BASE == SEGMENT_BASE ^ SEGMENT_LENGTH

\* parent_id IS NULL
NULL == 0

\* the processes that write to the table, each with its own connection,
\* its own TreeTaskQueue and its own SQLQueue
Writers == {1, 2}

VARIABLES
    rows,       \* the committed table: id -> [parent, priority, path, depth]
    nextId,     \* next value of the primary-key sequence
    queue,      \* writer -> TreeTaskQueue.queue, a sequence of tasks
    sqlq,       \* writer -> SQLQueue._items, parent ids of pending rebuilds
    cache,      \* treenode_cache: key -> cached value
    pc,         \* writer -> position inside run()
    compiled,   \* writer -> tasks handed to the compiler by its last run()
    locks,      \* row id -> [owner, mode] of the open transaction locking it
    txn,        \* writer -> rows written by its open transaction
    lastRun,    \* writer -> its last run(): the queue it took and how it ended
    budget,     \* operations the behaviour is still followed for
    ops         \* the calls made since the queue was last empty, oldest first

vars == <<rows, nextId, queue, sqlq, cache, pc, compiled, locks, txn,
          lastRun, budget, ops>>

\* ---------------------------------------------------------------------
\* Strings
\* ---------------------------------------------------------------------

HexDigits == <<"0", "1", "2", "3", "4", "5", "6", "7",
               "8", "9", "A", "B", "C", "D", "E", "F">>

Dot == <<".">>

RECURSIVE ToHex(_)
\* UPPER(TO_HEX(n)) and the digits of Python's 'X' format, n >= 0
ToHex(n) ==
    IF n < SEGMENT_BASE
    THEN <<HexDigits[n + 1]>>
    ELSE ToHex(n \div SEGMENT_BASE) \o <<HexDigits[(n % SEGMENT_BASE) + 1]>>

RECURSIVE Zeros(_)
Zeros(k) == IF k <= 0 THEN <<>> ELSE <<"0">> \o Zeros(k - 1)

\* f"{priority:0{SEGMENT_LENGTH}X}": pads to a minimum width, never cuts
Segment(priority) ==
    LET digits == ToHex(priority)
    IN  Zeros(SEGMENT_LENGTH - Len(digits)) \o digits

\* LPAD(value, length, '0'): pads on the left, cuts on the right when longer
Lpad(value, length) ==
    IF Len(value) >= length
    THEN SubSeq(value, 1, length)
    ELSE Zeros(length - Len(value)) \o value

\* _path.count('.')
CountDots(path) == Cardinality({i \in 1..Len(path) : path[i] = "."})

\* _path LIKE prefix || '%'
StartsWith(path, prefix) ==
    /\ Len(path) >= Len(prefix)
    /\ SubSeq(path, 1, Len(prefix)) = prefix

\* ---------------------------------------------------------------------
\* The table
\* ---------------------------------------------------------------------

Ids(rs) == DOMAIN rs

Row(parent, priority, path, depth) ==
    [parent |-> parent, priority |-> priority, path |-> path, depth |-> depth]

\* WHERE parent_id = p   (WHERE parent_id IS NULL for p = NULL)
Children(rs, p) == {i \in Ids(rs) : rs[i].parent = p}

RECURSIVE UpChain(_, _, _)
\* the ids met walking parent_id upward from id, at most n of them
UpChain(rs, id, n) ==
    IF id = NULL \/ id \notin Ids(rs) \/ n = 0
    THEN <<>>
    ELSE <<id>> \o UpChain(rs, rs[id].parent, n - 1)

Range(s) == {s[i] : i \in 1..Len(s)}

Reverse(s) == [i \in 1..Len(s) |-> s[Len(s) + 1 - i]]

\* the parent_id chain of id never reaches NULL
Loops(rs, id) ==
    Len(UpChain(rs, id, Cardinality(Ids(rs)) + 1)) > Cardinality(Ids(rs))

\* id lies on a cycle of parent_id
OnCycle(rs, id) ==
    /\ id \in Ids(rs)
    /\ id \in Range(UpChain(rs, rs[id].parent, Cardinality(Ids(rs))))

\* proper ancestors of id along parent_id
AncestorsOf(rs, id) ==
    IF id \in Ids(rs)
    THEN Range(UpChain(rs, rs[id].parent, Cardinality(Ids(rs))))
    ELSE {}

\* rows below p along parent_id (every row hanging off a root for p = NULL)
DescendantsOf(rs, p) ==
    IF p = NULL
    THEN {i \in Ids(rs) : ~Loops(rs, i)}
    ELSE {i \in Ids(rs) : p \in AncestorsOf(rs, i)}

\* ROW_NUMBER() over the siblings taken from the last to the first (a faulty
\* variant)
RankDescending(rs, i) ==
    Cardinality({s \in Children(rs, rs[i].parent) :
                    \/ rs[s].priority > rs[i].priority
                    \/ rs[s].priority = rs[i].priority /\ s > i})

\* ROW_NUMBER() OVER (PARTITION BY parent_id ORDER BY priority, id) - 1
Rank(rs, i) ==
    Cardinality({s \in Children(rs, rs[i].parent) :
                    \/ rs[s].priority < rs[i].priority
                    \/ rs[s].priority = rs[i].priority /\ s < i})

\* ---------------------------------------------------------------------
\* The path compiler
\* ---------------------------------------------------------------------

RECURSIVE NewVals(_, _, _)
\* the tree_cte row of d: the anchor for the children of p, the recursive
\* term below them
NewVals(rs, p, d) ==
    LET new_priority == Rank(rs, d)
        segment == Lpad(ToHex(new_priority), SEGMENT_LENGTH)
    IN  IF rs[d].parent = p
        THEN IF p = NULL
             THEN [priority |-> new_priority, path |-> segment, depth |-> 0]
             ELSE [priority |-> new_priority,
                   path |-> rs[p].path \o Dot \o segment,
                   depth |-> rs[p].depth + 1]
        ELSE LET t == NewVals(rs, p, rs[d].parent)
             IN  [priority |-> new_priority,
                  path |-> t.path \o Dot \o segment,
                  depth |-> t.depth + 1]

\* the recursive CTE never ends: the children of p lead back to p
Diverges(rs, p) == p # NULL /\ OnCycle(rs, p)

\* update_path writing new_depth = 0 for every row (a faulty variant)
UpdatePathFlat(rs, p) ==
    LET touched == IF p # NULL /\ p \notin Ids(rs) THEN {}
                   ELSE DescendantsOf(rs, p)
    IN  [i \in Ids(rs) |->
            IF i \in touched
            THEN LET t == NewVals(rs, p, i)
                 IN  Row(rs[i].parent, t.priority, t.path, 0)
            ELSE rs[i]]

\* update_path rebuilding the whole forest whatever parent_id is (a faulty
\* variant)
UpdatePathAll(rs, p) ==
    LET touched == DescendantsOf(rs, NULL)
    IN  [i \in Ids(rs) |->
            IF i \in touched
            THEN LET t == NewVals(rs, NULL, i)
                 IN  Row(rs[i].parent, t.priority, t.path, t.depth)
            ELSE rs[i]]

\* TreePathCompiler.update_path(model, parent_id = p), for ~Diverges(rs, p)
UpdatePath(rs, p) ==
    LET touched == IF p # NULL /\ p \notin Ids(rs) THEN {}
                   ELSE DescendantsOf(rs, p)
    IN  [i \in Ids(rs) |->
            IF i \in touched
            THEN LET t == NewVals(rs, p, i)
                 IN  Row(rs[i].parent, t.priority, t.path, t.depth)
            ELSE rs[i]]

\* ---------------------------------------------------------------------
\* The task queue
\* ---------------------------------------------------------------------

Task(parent_id) == [mode |-> "update", parent_id |-> parent_id]

\* TreeTaskQueue.add
Add(q, parent_id) == Append(q, Task(parent_id))

\* SELECT id ... WHERE parent_id IS NULL
RootIds(rs) == Children(rs, NULL)

\* _get_ancestor_path: the ids from the root down to node_id, for a chain
\* that reaches NULL
AncestorPath(rs, node_id) ==
    Reverse(UpChain(rs, node_id, Cardinality(Ids(rs))))

RECURSIVE ZipCommon(_, _, _, _)
ZipCommon(path1, path2, i, common) ==
    IF i > Len(path1) \/ i > Len(path2) THEN common
    ELSE IF path1[i] = path2[i]
         THEN ZipCommon(path1, path2, i + 1, path1[i])
         ELSE common

\* _get_common_ancestor; NULL stands for None
CommonAncestor(rs, id1, id2) ==
    ZipCommon(AncestorPath(rs, id1), AncestorPath(rs, id2), 1, NULL)

RemoveAt(s, k) == SubSeq(s, 1, k - 1) \o SubSeq(s, k + 1, Len(s))

\* the inner loop of _optimize finding no pair to merge (a faulty variant)
FirstMergeNone(rs, current, others, k) == 0

RECURSIVE FirstMerge(_, _, _, _)
\* the inner for loop of _optimize: the first other that shares an
\* ancestor with current; 0 when there is none, -1 when an ancestor query
\* does not end
FirstMerge(rs, current, others, k) ==
    IF k > Len(others) THEN 0
    ELSE IF Loops(rs, current) \/ Loops(rs, others[k]) THEN -1
    ELSE IF CommonAncestor(rs, current, others[k]) # NULL THEN k
    ELSE FirstMerge(rs, current, others, k + 1)

RECURSIVE OptimizeLoop(_, _, _, _)
\* the while loop of _optimize
OptimizeLoop(rs, id_list, id_set, result_set) ==
    IF id_list = <<>> THEN [kind |-> "ids", ids |-> result_set]
    ELSE LET current == Head(id_list)
             rest == Tail(id_list)
             k == FirstMerge(rs, current, rest, 1)
         IN  IF k = -1 THEN [kind |-> "error", ids |-> {}]
             ELSE IF k = 0
             THEN OptimizeLoop(rs, rest, id_set, result_set \cup {current})
             ELSE LET ancestor == CommonAncestor(rs, current, rest[k])
                  IN  IF ancestor \in RootIds(rs)
                      THEN [kind |-> "all", ids |-> {}]
                      ELSE OptimizeLoop(
                             rs,
                             IF ancestor \notin id_set
                             THEN Append(RemoveAt(rest, k), ancestor)
                             ELSE RemoveAt(rest, k),
                             id_set \cup {ancestor},
                             result_set)

RECURSIVE SortedSeq(_)
SortedSeq(S) ==
    IF S = {} THEN <<>>
    ELSE LET m == CHOOSE x \in S : \A y \in S : x <= y
         IN  <<m>> \o SortedSeq(S \ {m})

\* the parent ids queued, NULL among them or not
QueuedIds(q) == {q[i].parent_id : i \in 1..Len(q)}

\* the orders in which list(id_set) may enumerate a set
Orders(S) == {s \in [1..Cardinality(S) -> S] : Range(s) = S}

\* _optimize going through the ids queued without looking for a task of the
\* whole forest first (a faulty variant)
OptimizeIds(rs, q, id_list) ==
    OptimizeLoop(rs, id_list, QueuedIds(q) \ {NULL}, {})

\* TreeTaskQueue._optimize, id_list being list(id_set)
Optimize(rs, q, id_list) ==
    IF NULL \in QueuedIds(q) THEN [kind |-> "all", ids |-> {}]
    ELSE OptimizeLoop(rs, id_list, QueuedIds(q), {})

\* the task list _optimize returns
TaskList(opt) ==
    IF opt.kind = "all" THEN <<Task(NULL)>>
    ELSE [i \in 1..Cardinality(opt.ids) |-> Task(SortedSeq(opt.ids)[i])]

RECURSIVE CompileAll(_, _)
\* run(): update_path for each task in turn
CompileAll(rs, tasks) ==
    IF tasks = <<>> THEN rs
    ELSE CompileAll(UpdatePath(rs, Head(tasks).parent_id), Tail(tasks))

RECURSIVE CompileFails(_, _)
\* some update_path of the run raises
CompileFails(rs, tasks) ==
    IF tasks = <<>> THEN FALSE
    ELSE \/ Diverges(rs, Head(tasks).parent_id)
         \/ CompileFails(UpdatePath(rs, Head(tasks).parent_id), Tail(tasks))

\* ---------------------------------------------------------------------
\* The node API
\* ---------------------------------------------------------------------

Positions == {"first-root", "last-root", "sorted-root",
              "first-sibling", "left-sibling", "right-sibling",
              "last-sibling", "sorted-sibling",
              "first-child", "last-child", "sorted-child"}

RootPositions == {"first-root", "last-root", "sorted-root"}

ChildPositions == {"first-child", "last-child", "sorted-child"}

\* integer positions and priorities a caller passes
IntPositions == {0, 1}

\* _get_place with 'right-sibling' taking the place of the target itself (a
\* faulty variant)
GetPlaceOnTarget(rs, target, position) ==
    CASE position = "first-root"     -> <<NULL, 0>>
      [] position = "last-root"      -> <<NULL, BASE - 1>>
      [] position = "sorted-root"    -> <<NULL, 0>>
      [] position = "first-sibling"  -> <<rs[target].parent, 0>>
      [] position = "left-sibling"   -> <<rs[target].parent, rs[target].priority>>
      [] position = "right-sibling"  -> <<rs[target].parent, rs[target].priority>>
      [] position = "last-sibling"   -> <<rs[target].parent, BASE - 1>>
      [] position = "sorted-sibling" -> <<rs[target].parent, 0>>
      [] position = "first-child"    -> <<target, 0>>
      [] position = "last-child"     -> <<target, BASE - 1>>
      [] position = "sorted-child"   -> <<target, 0>>

\* _get_place(target, position) -> <<parent, priority>>; target = NULL is
\* None, which the sibling positions do not accept
GetPlace(rs, target, position) ==
    CASE position = "first-root"     -> <<NULL, 0>>
      [] position = "last-root"      -> <<NULL, BASE - 1>>
      [] position = "sorted-root"    -> <<NULL, 0>>
      [] position = "first-sibling"  -> <<rs[target].parent, 0>>
      [] position = "left-sibling"   -> <<rs[target].parent, rs[target].priority>>
      [] position = "right-sibling"  -> <<rs[target].parent, rs[target].priority + 1>>
      [] position = "last-sibling"   -> <<rs[target].parent, BASE - 1>>
      [] position = "sorted-sibling" -> <<rs[target].parent, 0>>
      [] position = "first-child"    -> <<target, 0>>
      [] position = "last-child"     -> <<target, BASE - 1>>
      [] position = "sorted-child"   -> <<target, 0>>

\* _get_place(target, position) for isinstance(position, int)
GetPlaceInt(target, position) == <<target, position>>

\* the symbolic positions _get_place answers without raising: the sibling
\* positions read target.parent and target.priority, which None has not
PlaceDefined(rs, target, position) ==
    \/ position \in RootPositions \cup ChildPositions
    \/ position \in Positions /\ target \in Ids(rs)

\* position values that are neither an integer nor a key of choices
OtherPositions == {"None", "middle-child"}

\* _get_place raises ValueError("Invalid position format")
PlaceRejected(position) == position \notin Positions

\* generate_path, the parent instance as read from the table
GeneratePath(rs, parent, priority) ==
    IF parent = NULL
    THEN Segment(priority)
    ELSE rs[parent].path \o Dot \o Segment(priority)

\* _shift_siblings_forward
ShiftSiblingsForward(rs, parent, priority) ==
    IF priority >= BASE - 1 THEN rs
    ELSE [i \in Ids(rs) |->
            IF rs[i].parent = parent /\ rs[i].priority >= priority
            THEN [rs[i] EXCEPT !.priority = @ + 1]
            ELSE rs[i]]

\* save() of a node without a primary key: the table afterwards
SaveNewRows(rs, id, parent, priority) ==
    LET path == GeneratePath(rs, parent, priority)
        shifted == ShiftSiblingsForward(rs, parent, priority)
    IN  [i \in Ids(rs) \cup {id} |->
            IF i = id
            THEN Row(parent, priority, path, CountDots(path))
            ELSE shifted[i]]

\* save() of a node without a primary key: the queue afterwards
SaveNewQueue(q, parent) == Add(q, parent)

IsMove(rs, id, parent) == parent # rs[id].parent

IsShift(rs, id, priority) == priority # rs[id].priority

\* save() of a stored node whose instance carries (parent, priority) and
\* the _path and _depth it was read with: the table afterwards
SaveRows(rs, id, parent, priority) ==
    LET shifted == IF IsMove(rs, id, parent)
                   THEN ShiftSiblingsForward(rs, parent, priority)
                   ELSE rs
    IN  [shifted EXCEPT ![id] = Row(parent, priority, rs[id].path, rs[id].depth)]

\* save() of a stored node: the queue afterwards
SaveQueue(rs, q, id, parent, priority) ==
    LET q1 == IF IsMove(rs, id, parent) THEN Add(q, rs[id].parent) ELSE q
    IN  IF IsMove(rs, id, parent) \/ IsShift(rs, id, priority)
        THEN Add(q1, parent)
        ELSE q1

\* SQLService.reassign_children
ReassignChildren(rs, old_parent_id, new_parent_id) ==
    [i \in Ids(rs) |->
        IF rs[i].parent = old_parent_id
        THEN [rs[i] EXCEPT !.parent = new_parent_id]
        ELSE rs[i]]

\* Model.delete(): the row and, ON DELETE CASCADE, the rows below it
CascadeDelete(rs, id) ==
    LET gone == {id} \cup DescendantsOf(rs, id)
    IN  [i \in Ids(rs) \ gone |-> rs[i]]

RECURSIVE FlushRows(_, _)
\* SQLQueue.flush: the statements run one by one, each committed as it
\* ends, up to the first that raises
FlushRows(rs, items) ==
    IF items = <<>> THEN rs
    ELSE IF Diverges(rs, Head(items)) THEN rs
    ELSE FlushRows(UpdatePath(rs, Head(items)), Tail(items))

RECURSIVE FlushFails(_, _)
FlushFails(rs, items) ==
    IF items = <<>> THEN FALSE
    ELSE \/ Diverges(rs, Head(items))
         \/ FlushFails(UpdatePath(rs, Head(items)), Tail(items))

\* delete(cascade) lifting the children whatever cascade says (a faulty
\* variant)
DeleteLifting(rs, id, cascade) ==
    CascadeDelete(ReassignChildren(rs, id, rs[id].parent), id)

\* delete(cascade): the table before the queued rebuild is flushed
DeleteRows(rs, id, cascade) ==
    CascadeDelete(IF cascade THEN rs
                  ELSE ReassignChildren(rs, id, rs[id].parent), id)

\* ---------------------------------------------------------------------
\* Row locks of open transactions (PostgreSQL row-level lock modes)
\* ---------------------------------------------------------------------

NoLocks == [i \in {} |-> [owner |-> 0, mode |-> "update"]]

\* some row of S is locked by a transaction of another writer: an UPDATE,
\* a DELETE or a SELECT ... FOR UPDATE of the row has to wait, and
\* SELECT ... FOR UPDATE NOWAIT raises
LockedByOther(w, S) ==
    \E i \in S \cap DOMAIN locks : locks[i].owner # w

\* the foreign-key check of a row that starts to reference p takes FOR KEY
\* SHARE on p, which waits for FOR UPDATE only; a row without a parent
\* references nothing
KeyLockedByOther(w, p) ==
    /\ p \in DOMAIN locks
    /\ locks[p].owner # w
    /\ locks[p].mode = "update"

\* the siblings _shift_siblings_forward updates
ShiftedSiblings(rs, parent, priority) ==
    IF priority >= BASE - 1 THEN {}
    ELSE {i \in Ids(rs) : rs[i].parent = parent /\ rs[i].priority >= priority}

\* the rows the compiler updates for a task list
Touched(rs, tasks) ==
    UNION {IF tasks[k].parent_id # NULL /\ tasks[k].parent_id \notin Ids(rs)
           THEN {}
           ELSE DescendantsOf(rs, tasks[k].parent_id) : k \in 1..Len(tasks)}

\* the rows run() selects FOR UPDATE NOWAIT for a task list
LockTargets(rs, tasks) ==
    IF \E k \in 1..Len(tasks) : tasks[k].parent_id = NULL
    THEN RootIds(rs)
    ELSE {tasks[k].parent_id : k \in 1..Len(tasks)} \cap Ids(rs)

\* ---------------------------------------------------------------------
\* The cache
\* ---------------------------------------------------------------------

EmptyCache == [k \in {} |-> {}]

\* cache.invalidate(model label) where one model is cached and its label
\* holds no underscore: every key is dropped
Invalidate(c) == EmptyCache

\* generate_cache_key for a call without arguments on the instance pk
CacheKey(func_name, pk) == <<func_name, pk>>

\* cache.set
CacheSet(c, key, value) ==
    [k \in DOMAIN c \cup {key} |-> IF k = key THEN value ELSE c[k]]

\* TreeQuery.get_descendants(include_self = False, depth = None) for an
\* instance carrying the _path of its row: the pks selected, order aside
DescendantsPks(rs, node) ==
    {i \in Ids(rs) : StartsWith(rs[i].path, rs[node].path \o Dot)}

\* ---------------------------------------------------------------------
\* Cache keys as strings
\* ---------------------------------------------------------------------

Underscore == <<"_">>

\* model labels (app_label.ModelName) of three cached models
LabelPlain == <<"a", ".", "M">>

LabelOther == <<"b", ".", "N">>

LabelUnder == <<"m", "_", "a", ".", "M">>

Labels == {LabelPlain, LabelOther, LabelUnder}

\* the name of a cached method
FuncNames == {<<"g", "_", "d">>}

\* str(pk) for a pk below ten
Str(n) == <<HexDigits[n + 1]>>

\* generate_cache_key of the dict backend for a call without arguments:
\* f"{label}_{func_name}_{unique_id}_{args}_{sorted_kwargs}"
GenerateCacheKey(label, func_name, unique_id) ==
    label \o Underscore \o func_name \o Underscore \o Str(unique_id)
          \o Underscore \o <<"(", ")">> \o Underscore \o <<"[", "]">>

\* the prefix set() files a new key under: key.split('_', 1)[0] + "_"
KeyPrefix(key) ==
    IF \E i \in 1..Len(key) : key[i] = "_"
    THEN SubSeq(key, 1, CHOOSE i \in 1..Len(key) :
                            /\ key[i] = "_"
                            /\ \A j \in 1..(i - 1) : key[j] # "_")
    ELSE key

\* prefix_index.get(prefix, set()): the stored keys filed under prefix
PrefixIndex(c, prefix) == {k \in DOMAIN c : KeyPrefix(k) = prefix}

\* cache.invalidate(prefix): prefix += '_', the keys filed under it removed
InvalidatePrefix(c, prefix) ==
    LET keys_to_remove == PrefixIndex(c, prefix \o Underscore)
    IN  [k \in DOMAIN c \ keys_to_remove |-> c[k]]

\* cache.get(key) returns None
Miss(c, key) == key \notin DOMAIN c

\* ---------------------------------------------------------------------
\* State after construction
\* ---------------------------------------------------------------------

EmptyRows == [i \in {} |-> Row(NULL, 0, <<>>, 0)]

NoRun == [outcome |-> "none", queue |-> <<>>, tasks |-> <<>>]

\* a table of n rows before any rebuild: row i under parents[i], the
\* siblings in the order of order
RawRows(n, parents, order) ==
    [i \in 1..n |->
        Row(parents[i], CHOOSE k \in 1..n : order[k] = i, <<>>, 0)]

\* the tables of at most n rows the program leaves after creations, moves
\* and a full rebuild: every forest over the ids 1..k, k <= n, with every
\* order of its siblings, as the compiler writes it
Forests(n) ==
    UNION {{UpdatePath(RawRows(k, parents, order), NULL) :
               parents \in {f \in [1..k -> 0..k] :
                               \A i \in 1..k :
                                   ~Loops(RawRows(k, f, [j \in 1..k |-> j]), i)},
               order \in Orders(1..k)} : k \in 0..n}

\* a consistent table, every queue empty, no transaction open
InitWith(n, b) ==
    /\ rows \in Forests(n)
    /\ nextId = Cardinality(Ids(rows)) + 1
    /\ queue = [w \in Writers |-> <<>>]
    /\ sqlq = [w \in Writers |-> <<>>]
    /\ cache = EmptyCache
    /\ pc = [w \in Writers |-> "idle"]
    /\ compiled = [w \in Writers |-> <<>>]
    /\ locks = NoLocks
    /\ txn = [w \in Writers |-> EmptyRows]
    /\ lastRun = [w \in Writers |-> NoRun]
    /\ budget = b
    /\ ops = <<>>

Init == InitWith(MaxId, MaxSteps)

InitCache == InitWith(CacheMaxId, CacheSteps)

InitConc == InitWith(ConcMaxId, ConcSteps)

\* ---------------------------------------------------------------------
\* Operations of a writer
\* ---------------------------------------------------------------------

\* one more operation, while the behaviour is followed
Step == budget > 0 /\ budget' = budget - 1

\* save() of a new instance with the given parent and priority, issued
\* while fewer than cap tasks are queued
SaveNewCapped(w, cap, limit, parent, priority) ==
    /\ pc[w] = "idle"
    /\ Len(queue[w]) < cap
    /\ nextId <= limit
    /\ ~LockedByOther(w, ShiftedSiblings(rows, parent, priority))
    /\ ~KeyLockedByOther(w, parent)
    /\ Step
    /\ rows' = SaveNewRows(rows, nextId, parent, priority)
    /\ nextId' = nextId + 1
    /\ queue' = [queue EXCEPT ![w] = SaveNewQueue(@, parent)]
    /\ cache' = Invalidate(cache)
    /\ lastRun' = [lastRun EXCEPT ![w] = NoRun]
    /\ UNCHANGED <<sqlq, pc, compiled, locks, txn>>

SaveNew(w, limit, parent, priority) ==
    SaveNewCapped(w, MaxQueue, limit, parent, priority)

\* save() of a stored instance read from the table and then given the
\* parent and the priority, issued while fewer than cap tasks are queued
SaveCapped(w, cap, id, parent, priority) ==
    /\ pc[w] = "idle"
    /\ Len(queue[w]) < cap
    /\ ~LockedByOther(w, {id} \cup
                         IF IsMove(rows, id, parent)
                         THEN ShiftedSiblings(rows, parent, priority) ELSE {})
    /\ IsMove(rows, id, parent) => ~KeyLockedByOther(w, parent)
    /\ Step
    /\ rows' = SaveRows(rows, id, parent, priority)
    /\ queue' = [queue EXCEPT ![w] = SaveQueue(rows, @, id, parent, priority)]
    /\ cache' = IF IsMove(rows, id, parent) \/ IsShift(rows, id, priority)
                THEN Invalidate(cache) ELSE cache
    /\ lastRun' = [lastRun EXCEPT ![w] = NoRun]
    /\ UNCHANGED <<nextId, sqlq, pc, compiled, locks, txn>>

Save(w, id, parent, priority) == SaveCapped(w, MaxQueue, id, parent, priority)

\* objects.create(parent = ..., priority = ...)
Create(w, limit) ==
    \E parent \in Ids(rows) \cup {NULL}, priority \in IntPositions :
        SaveNew(w, limit, parent, priority) /\ UNCHANGED ops

\* target.add_child(position), Model.add_root(position)
AddAt(w, limit) ==
    \E target \in Ids(rows) \cup {NULL},
       position \in RootPositions \cup ChildPositions :
        /\ PlaceDefined(rows, target, position)
        /\ position \in RootPositions <=> target = NULL
        /\ LET place == GetPlace(rows, target, position)
           IN  SaveNew(w, limit, place[1], place[2]) /\ UNCHANGED ops

\* node.move_to(target, position)
MoveTo(w) ==
    \E node \in Ids(rows), target \in Ids(rows) \cup {NULL},
       position \in Positions :
        /\ PlaceDefined(rows, target, position)
        /\ LET place == GetPlace(rows, target, position)
           IN  Save(w, node, place[1], place[2]) /\ UNCHANGED ops

\* node.move_to(target, n) with an integer position
MoveToInt(w) ==
    \E node \in Ids(rows), target \in Ids(rows) \cup {NULL},
       position \in IntPositions :
        LET place == GetPlaceInt(target, position)
        IN  Save(w, node, place[1], place[2]) /\ UNCHANGED ops

\* node.set_parent(parent_obj)
SetParent(w) ==
    \E node \in Ids(rows), parent_obj \in Ids(rows) \cup {NULL} :
        Save(w, node, parent_obj, rows[node].priority) /\ UNCHANGED ops

\* node.set_priority(priority)
SetPriority(w) ==
    \E node \in Ids(rows), priority \in IntPositions \cup {BASE - 1} :
        Save(w, node, rows[node].parent, priority) /\ UNCHANGED ops

\* node.delete(cascade): the rows removed, the path update of the former
\* parent queued as a statement and the statement queue flushed
DeleteNode(w, node, cascade) ==
    LET items == Append(sqlq[w], rows[node].parent)
        deleted == DeleteRows(rows, node, cascade)
    IN  /\ pc[w] = "idle"
        /\ ~LockedByOther(w, {node} \cup DescendantsOf(rows, node)
                             \cup DescendantsOf(rows, rows[node].parent))
        /\ Step
        /\ rows' = FlushRows(deleted, items)
        /\ sqlq' = [sqlq EXCEPT ![w] =
                       IF FlushFails(deleted, items) THEN items ELSE <<>>]
        /\ cache' = IF FlushFails(deleted, items)
                    THEN cache ELSE Invalidate(cache)
        /\ lastRun' = [lastRun EXCEPT ![w] = NoRun]
        /\ UNCHANGED <<nextId, queue, pc, compiled, locks, txn>>

\* node.delete(cascade)
Delete(w) ==
    \E node \in Ids(rows), cascade \in BOOLEAN :
        DeleteNode(w, node, cascade) /\ UNCHANGED ops

\* ---------------------------------------------------------------------
\* The calls of a writer, each noted with the table it was made on
\* ---------------------------------------------------------------------

\* the calls since the task queue of w was last empty, call added
Noted(w, call) == IF queue[w] = <<>> THEN <<call>> ELSE Append(ops, call)

\* node.move_to(target, position), position one of positions
MoveToOp(w, cap, positions) ==
    \E node \in Ids(rows), target \in Ids(rows) \cup {NULL},
       position \in positions :
        /\ PlaceDefined(rows, target, position)
        /\ LET place == GetPlace(rows, target, position)
           IN  /\ SaveCapped(w, cap, node, place[1], place[2])
               /\ ops' = Noted(w, [op |-> "move_to", node |-> node,
                                   target |-> target, position |-> position,
                                   parent |-> place[1], before |-> rows])

\* target.add_child(position), Model.add_root(position), position one of
\* positions
AddAtOp(w, cap, limit, positions) ==
    \E target \in Ids(rows) \cup {NULL},
       position \in positions \cap (RootPositions \cup ChildPositions) :
        /\ PlaceDefined(rows, target, position)
        /\ position \in RootPositions <=> target = NULL
        /\ LET place == GetPlace(rows, target, position)
           IN  /\ SaveNewCapped(w, cap, limit, place[1], place[2])
               /\ ops' = Noted(w, [op |-> "add", node |-> nextId,
                                   target |-> target, position |-> position,
                                   parent |-> place[1], before |-> rows])

\* node.move_to(target, n) with an integer position
MoveToIntOp(w, cap) ==
    \E node \in Ids(rows), target \in Ids(rows) \cup {NULL},
       position \in IntPositions :
        LET place == GetPlaceInt(target, position)
        IN  /\ SaveCapped(w, cap, node, place[1], place[2])
            /\ ops' = Noted(w, [op |-> "move_to_int", node |-> node,
                                target |-> target, n |-> position,
                                before |-> rows])

\* node.move_to(target, position) with a position _get_place rejects: the
\* ValueError leaves move_to before anything is assigned or saved
MoveToRejected(w) ==
    \E node \in Ids(rows), target \in Ids(rows) \cup {NULL},
       position \in Positions \cup OtherPositions :
        /\ PlaceRejected(position)
        /\ pc[w] = "idle"
        /\ Step
        /\ ops' = <<[op |-> "rejected", node |-> node, target |-> target,
                     position |-> position, queued |-> queue[w],
                     before |-> rows]>>
        /\ UNCHANGED <<rows, nextId, queue, sqlq, cache, pc, compiled, locks,
                       txn, lastRun>>

\* node.set_priority(priority)
SetPriorityOp(w, cap) ==
    \E node \in Ids(rows), priority \in IntPositions \cup {BASE - 1} :
        /\ SaveCapped(w, cap, node, rows[node].parent, priority)
        /\ ops' = Noted(w, [op |-> "set_priority", node |-> node,
                            priority |-> priority, before |-> rows])

\* node.delete(cascade)
DeleteOp(w) ==
    \E node \in Ids(rows), cascade \in BOOLEAN :
        /\ DeleteNode(w, node, cascade)
        /\ ops' = <<[op |-> "delete", node |-> node, cascade |-> cascade,
                     before |-> rows]>>

\* ---------------------------------------------------------------------
\* Manager.bulk_create, Manager.bulk_update
\* ---------------------------------------------------------------------

\* the sequences of one to n elements of S
SeqsUpTo(S, n) == UNION {[1..k -> S] : k \in 1..n}

\* the instances handed to bulk_create: parent and priority set, _path and
\* _depth left at the field defaults
NewObjs(rs) ==
    SeqsUpTo([parent : Ids(rs) \cup {NULL}, priority : IntPositions], BulkMax)

\* the instances handed to bulk_update with fields parent and priority:
\* different stored rows, parent and priority assigned
ChangedObjs(rs) ==
    {objs \in SeqsUpTo([id : Ids(rs), parent : Ids(rs) \cup {NULL},
                        priority : IntPositions], BulkMax) :
        \A i, j \in 1..Len(objs) : objs[i].id = objs[j].id => i = j}

\* the parent ids of the instances
ParentIds(objs) == {objs[i].parent : i \in 1..Len(objs)}

\* the queue after the loop over objs: cleared and given the NULL task at
\* the first parent_id None, else one task for each parent id collected, in
\* the order the set enumerates them
BulkQueue(q, objs, order) ==
    IF NULL \in ParentIds(objs)
    THEN <<Task(NULL)>>
    ELSE q \o [i \in 1..Len(order) |-> Task(order[i])]

\* the table after the INSERT of bulk_create, ids from first on
BulkCreateRows(rs, first, objs) ==
    [i \in Ids(rs) \cup first..(first + Len(objs) - 1) |->
        IF i \in Ids(rs) THEN rs[i]
        ELSE Row(objs[i - first + 1].parent, objs[i - first + 1].priority,
                 <<>>, 0)]

\* the table after the UPDATE of bulk_update
BulkUpdateRows(rs, objs) ==
    [i \in Ids(rs) |->
        IF \E k \in 1..Len(objs) : objs[k].id = i
        THEN LET obj == objs[CHOOSE k \in 1..Len(objs) : objs[k].id = i]
             IN  [rs[i] EXCEPT !.parent = obj.parent,
                               !.priority = obj.priority]
        ELSE rs[i]]

\* objects.bulk_create(objs)
BulkCreate(w, cap, limit) ==
    \E objs \in NewObjs(rows) :
        /\ pc[w] = "idle"
        /\ Len(queue[w]) < cap
        /\ nextId + Len(objs) - 1 <= limit
        /\ \A p \in ParentIds(objs) : ~KeyLockedByOther(w, p)
        /\ Step
        /\ rows' = BulkCreateRows(rows, nextId, objs)
        /\ nextId' = nextId + Len(objs)
        /\ \E order \in Orders(ParentIds(objs)) :
               queue' = [queue EXCEPT ![w] = BulkQueue(@, objs, order)]
        /\ ops' = Noted(w, [op |-> "bulk_create",
                            nodes |-> nextId..(nextId + Len(objs) - 1),
                            parents |-> ParentIds(objs),
                            queued |-> queue[w], before |-> rows])
        /\ lastRun' = [lastRun EXCEPT ![w] = NoRun]
        /\ UNCHANGED <<sqlq, cache, pc, compiled, locks, txn>>

\* objects.bulk_update(objs, ['parent', 'priority'])
BulkUpdate(w, cap) ==
    \E objs \in ChangedObjs(rows) :
        /\ pc[w] = "idle"
        /\ Len(queue[w]) < cap
        /\ ~LockedByOther(w, {objs[i].id : i \in 1..Len(objs)})
        /\ \A p \in ParentIds(objs) : ~KeyLockedByOther(w, p)
        /\ Step
        /\ rows' = BulkUpdateRows(rows, objs)
        /\ \E order \in Orders(ParentIds(objs)) :
               queue' = [queue EXCEPT ![w] = BulkQueue(@, objs, order)]
        /\ ops' = Noted(w, [op |-> "bulk_update",
                            nodes |-> {objs[i].id : i \in 1..Len(objs)},
                            parents |-> ParentIds(objs),
                            queued |-> queue[w], before |-> rows])
        /\ lastRun' = [lastRun EXCEPT ![w] = NoRun]
        /\ UNCHANGED <<nextId, sqlq, cache, pc, compiled, locks, txn>>

\* ---------------------------------------------------------------------
\* get_tree, load_tree
\* ---------------------------------------------------------------------

\* the place of a character of a path in the byte order
CharRank(c) ==
    IF c = "." THEN 0
    ELSE IF c = "/" THEN 1
    ELSE 1 + CHOOSE k \in 1..SEGMENT_BASE : HexDigits[k] = c

RECURSIVE PathLess(_, _)
\* a < b for ORDER BY _path, bytewise
PathLess(a, b) ==
    IF b = <<>> THEN FALSE
    ELSE IF a = <<>> THEN TRUE
    ELSE IF Head(a) # Head(b) THEN CharRank(Head(a)) < CharRank(Head(b))
    ELSE PathLess(Tail(a), Tail(b))

\* the rows of the queryset of get_tree: every row, or the rows whose _path
\* starts with the _path of instance (get_descendants_queryset with
\* include_self)
TreeRows(rs, instance) ==
    IF instance = NULL THEN Ids(rs)
    ELSE {i \in Ids(rs) : StartsWith(rs[i].path, rs[instance].path)}

\* the orders ORDER BY _path may deliver the rows of S in
PathOrders(rs, S) ==
    {o \in Orders(S) :
        \A i, j \in 1..Len(o) : i < j => ~PathLess(rs[o[j]].path, rs[o[i]].path)}

\* the dictionary a node is appended to in get_tree: the one of its parent
\* when the parent is among the rows read, NULL for the list tree itself
NestedUnder(rs, S, i) ==
    IF rs[i].parent # NULL /\ rs[i].parent \in S THEN rs[i].parent ELSE NULL

\* the dictionary of i hangs off the list get_tree returns
InTree(rs, S, i) ==
    LET chain == UpChain([j \in S |-> [parent |-> NestedUnder(rs, S, j)]],
                         i, Cardinality(S) + 1)
    IN  Len(chain) <= Cardinality(S)

\* get_tree followed by flatten_tree of load_tree: one record for each
\* dictionary of the tree, '_id' its id, '_parent' the id of the dictionary
\* it was nested in ('parent' is popped), 'priority' kept
FlatTree(rs, instance, order) ==
    LET S == TreeRows(rs, instance)
        kept == SelectSeq(order, LAMBDA i : InTree(rs, S, i))
    IN  [k \in 1..Len(kept) |->
            [id |-> kept[k], parent |-> NestedUnder(rs, S, kept[k]),
             priority |-> rs[kept[k]].priority]]

\* load_tree dropping 'priority' from the records as it drops 'path' and
\* 'depth', the field default stored instead (a faulty variant)
LoadRowsUnordered(rs, records) ==
    [i \in Ids(rs) |->
        IF \E k \in 1..Len(records) : records[k].id = i
        THEN LET r == records[CHOOSE k \in 1..Len(records) : records[k].id = i]
             IN  [rs[i] EXCEPT !.priority = 0,
                               !.parent = IF r.parent # NULL THEN r.parent
                                          ELSE @]
        ELSE rs[i]]

\* the stored rows after steps 5 to 8 of load_tree: priority from the
\* record, parent_id from '_parent' when the record has one
LoadRows(rs, records) ==
    [i \in Ids(rs) |->
        IF \E k \in 1..Len(records) : records[k].id = i
        THEN LET r == records[CHOOSE k \in 1..Len(records) : records[k].id = i]
             IN  [rs[i] EXCEPT !.priority = r.priority,
                               !.parent = IF r.parent # NULL THEN r.parent
                                          ELSE @]
        ELSE rs[i]]

\* the queue after the bulk_update calls of load_tree, the last one over
\* every object: the NULL task alone when an object has no parent, else one
\* task for each parent id (_optimize reads the queue as a set)
LoadQueue(q, loaded, records) ==
    LET pids == {loaded[records[k].id].parent : k \in 1..Len(records)}
    IN  IF NULL \in pids THEN <<Task(NULL)>>
        ELSE q \o [k \in 1..Cardinality(pids) |-> Task(SortedSeq(pids)[k])]

\* ---------------------------------------------------------------------
\* run()
\* ---------------------------------------------------------------------

\* how run() ends once its locks are granted; a recursive statement that
\* does not end is taken as raising
RunOutcome(rs, opt) ==
    IF opt.kind = "error" THEN "error"
    ELSE IF TaskList(opt) = <<>> THEN "empty"
    ELSE IF CompileFails(rs, TaskList(opt)) THEN "error"
    ELSE "done"

\* the rows run() leaves: the tasks compiled and committed, or nothing
\* when _optimize returns no task or a statement raises
RunRows(rs, opt) ==
    IF RunOutcome(rs, opt) = "done" THEN CompileAll(rs, TaskList(opt)) ELSE rs

\* the tasks of a run, none when _optimize raises
RunTasks(opt) == IF opt.kind = "error" THEN <<>> ELSE TaskList(opt)

\* run() going on whatever the FOR UPDATE NOWAIT statements answer (a
\* faulty variant)
LocksIgnored(w, rs, tasks) == TRUE

\* the FOR UPDATE NOWAIT statements of run(): TRUE when every lock is granted
LocksGranted(w, rs, tasks) == ~LockedByOther(w, LockTargets(rs, tasks))

\* tasks.run() from the first statement to the last, no other writer in
\* between: coalesce, lock, compile, commit
Run(w) ==
    /\ queue[w] # <<>>
    /\ pc[w] = "idle"
    /\ Step
    /\ \E id_list \in Orders(QueuedIds(queue[w]) \ {NULL}) :
        LET opt == Optimize(rows, queue[w], id_list)
            outcome == RunOutcome(rows, opt)
        IN  /\ rows' = RunRows(rows, opt)
            /\ compiled' = [compiled EXCEPT ![w] =
                   IF outcome = "done" THEN TaskList(opt) ELSE <<>>]
            /\ lastRun' = [lastRun EXCEPT ![w] =
                   [outcome |-> outcome, queue |-> queue[w],
                    tasks |-> RunTasks(opt)]]
    /\ queue' = [queue EXCEPT ![w] = <<>>]
    /\ UNCHANGED <<nextId, sqlq, cache, pc, locks, txn, ops>>

\* run() up to the compiler: BEGIN, the locks granted, every task compiled
\* inside the open transaction
RunBegin(w) ==
    /\ queue[w] # <<>>
    /\ pc[w] = "idle"
    /\ Step
    /\ \E id_list \in Orders(QueuedIds(queue[w]) \ {NULL}) :
        LET opt == Optimize(rows, queue[w], id_list)
            tasks == RunTasks(opt)
            touched == Touched(rows, tasks)
            new == CompileAll(rows, tasks)
        IN  /\ RunOutcome(rows, opt) = "done"
            /\ LocksGranted(w, rows, tasks)
            \* the UPDATE waits for the rows another transaction wrote
            /\ ~LockedByOther(w, touched)
            /\ txn' = [txn EXCEPT ![w] = [i \in touched |-> new[i]]]
            /\ locks' = [i \in DOMAIN locks \cup touched
                                  \cup LockTargets(rows, tasks) |->
                            IF i \in LockTargets(rows, tasks)
                            THEN [owner |-> w, mode |-> "update"]
                            ELSE IF i \in touched
                            THEN [owner |-> w, mode |-> "nokey"]
                            ELSE locks[i]]
            /\ compiled' = [compiled EXCEPT ![w] = tasks]
            /\ lastRun' = [lastRun EXCEPT ![w] =
                   [outcome |-> "open", queue |-> queue[w], tasks |-> tasks]]
    /\ pc' = [pc EXCEPT ![w] = "compiled"]
    /\ UNCHANGED <<rows, nextId, queue, sqlq, cache, ops>>

\* how run() ends when it ends before COMMIT
EarlyOutcome(w, rs, opt) ==
    IF opt.kind = "error" THEN "error"
    ELSE IF TaskList(opt) = <<>> THEN "empty"
    ELSE IF ~LocksGranted(w, rs, TaskList(opt)) THEN "skipped"
    ELSE "error"

\* run() returning before COMMIT: _optimize raised or returned no task, a
\* lock was refused, or a compiler statement raised; finally clears the queue
RunReturn(w) ==
    /\ queue[w] # <<>>
    /\ pc[w] = "idle"
    /\ Step
    /\ \E id_list \in Orders(QueuedIds(queue[w]) \ {NULL}) :
        LET opt == Optimize(rows, queue[w], id_list)
        IN  /\ \/ RunOutcome(rows, opt) # "done"
               \/ ~LocksGranted(w, rows, RunTasks(opt))
            /\ RunOutcome(rows, opt) = "error" /\ opt.kind # "error"
                  /\ LocksGranted(w, rows, RunTasks(opt))
                  => ~LockedByOther(w, Touched(rows, RunTasks(opt)))
            /\ lastRun' = [lastRun EXCEPT ![w] =
                   [outcome |-> EarlyOutcome(w, rows, opt),
                    queue |-> queue[w], tasks |-> RunTasks(opt)]]
    /\ queue' = [queue EXCEPT ![w] = <<>>]
    /\ compiled' = [compiled EXCEPT ![w] = <<>>]
    /\ UNCHANGED <<rows, nextId, sqlq, cache, pc, locks, txn, ops>>

\* COMMIT of run(): the rows written become visible, the locks are released
RunCommit(w) ==
    /\ pc[w] = "compiled"
    /\ Step
    /\ rows' = [i \in Ids(rows) |->
                   IF i \in DOMAIN txn[w] THEN txn[w][i] ELSE rows[i]]
    /\ locks' = [i \in {j \in DOMAIN locks : locks[j].owner # w} |-> locks[i]]
    /\ txn' = [txn EXCEPT ![w] = EmptyRows]
    /\ pc' = [pc EXCEPT ![w] = "idle"]
    /\ queue' = [queue EXCEPT ![w] = <<>>]
    /\ lastRun' = [lastRun EXCEPT ![w] = [@ EXCEPT !.outcome = "done"]]
    /\ UNCHANGED <<nextId, sqlq, cache, compiled, ops>>

\* ---------------------------------------------------------------------
\* load_tree(get_tree(instance))
\* ---------------------------------------------------------------------

\* Model.load_tree(Model.get_tree(instance)) called with an empty queue,
\* instance = NULL for the whole forest: every record names a stored row,
\* so the rows are updated in bulk, the queue is run and the cache cleared
LoadGetTree(w) ==
    \E instance \in Ids(rows) \cup {NULL} :
        /\ pc[w] = "idle"
        /\ queue[w] = <<>>
        /\ ~LockedByOther(w, Ids(rows))
        /\ Step
        /\ \E order \in PathOrders(rows, TreeRows(rows, instance)) :
            LET records == FlatTree(rows, instance, order)
                loaded == LoadRows(rows, records)
                q == LoadQueue(queue[w], loaded, records)
            IN  \E id_list \in Orders(QueuedIds(q) \ {NULL}) :
                    LET opt == Optimize(loaded, q, id_list)
                        outcome == IF q = <<>> THEN "empty"
                                   ELSE RunOutcome(loaded, opt)
                    IN  /\ rows' = IF q = <<>> THEN loaded
                                   ELSE RunRows(loaded, opt)
                        /\ compiled' = [compiled EXCEPT ![w] =
                               IF outcome = "done" THEN TaskList(opt)
                               ELSE <<>>]
                        /\ lastRun' = [lastRun EXCEPT ![w] =
                               [outcome |-> outcome, queue |-> q,
                                tasks |-> IF q = <<>> THEN <<>>
                                          ELSE RunTasks(opt)]]
        /\ ops' = <<[op |-> "load_tree", instance |-> instance,
                     before |-> rows]>>
        /\ cache' = Invalidate(cache)
        /\ UNCHANGED <<nextId, queue, sqlq, pc, locks, txn>>

\* ---------------------------------------------------------------------
\* Cached reads
\* ---------------------------------------------------------------------

\* node.get_descendants_pks() through @cached_method, node freshly read
GetDescendantsPks ==
    \E node \in Ids(rows) :
        LET key == CacheKey("get_descendants_pks", node)
        IN  /\ Step
            /\ cache' = IF key \in DOMAIN cache THEN cache
                        ELSE CacheSet(cache, key, DescendantsPks(rows, node))
            /\ UNCHANGED <<rows, nextId, queue, sqlq, pc, compiled, locks,
                           txn, lastRun, ops>>

\* the frame of an operation of the cache alone
CacheOnly ==
    UNCHANGED <<rows, nextId, queue, sqlq, pc, compiled, locks, txn, lastRun,
                budget>>

\* a cached method of a model computed for the instance pk and stored:
\* cache.set(generate_cache_key(label, func_name, pk), value)
CacheSetKey ==
    \E label \in Labels, func_name \in FuncNames, pk \in 1..KeyMaxId :
        LET key == GenerateCacheKey(label, func_name, pk)
        IN  /\ cache' = CacheSet(cache, key, pk)
            /\ ops' = <<[op |-> "set", label |-> label, key |-> key]>>
            /\ CacheOnly

\* Model.clear_cache(): cache.invalidate(cls._meta.label)
CacheInvalidate ==
    \E label \in Labels :
        /\ cache' = InvalidatePrefix(cache, label)
        /\ ops' = <<[op |-> "invalidate", label |-> label]>>
        /\ CacheOnly

\* ---------------------------------------------------------------------
\* One writer
\* ---------------------------------------------------------------------

Next ==
    \/ Create(1, MaxId)
    \/ AddAt(1, MaxId)
    \/ MoveTo(1)
    \/ MoveToInt(1)
    \/ SetParent(1)
    \/ SetPriority(1)
    \/ Delete(1)
    \/ Run(1)

Spec == Init /\ [][Next]_vars

\* ---------------------------------------------------------------------
\* One writer and cached reads
\* ---------------------------------------------------------------------

NextCache ==
    \/ Create(1, CacheMaxId)
    \/ MoveTo(1)
    \/ SetPriority(1)
    \/ Delete(1)
    \/ Run(1)
    \/ GetDescendantsPks

SpecCache == InitCache /\ [][NextCache]_vars

\* ---------------------------------------------------------------------
\* Two writers, each with its connection and its task queue
\* ---------------------------------------------------------------------

NextConc ==
    \E w \in Writers :
        \/ AddAt(w, ConcMaxId)
        \/ MoveTo(w)
        \/ SetPriority(w)
        \/ Delete(w)
        \/ RunBegin(w)
        \/ RunReturn(w)
        \/ RunCommit(w)

SpecConc == InitConc /\ [][NextConc]_vars

\* ---------------------------------------------------------------------
\* The cache of several models
\* ---------------------------------------------------------------------

InitKeys == InitWith(0, 0)

NextKeys ==
    \/ CacheSetKey
    \/ CacheInvalidate

SpecKeys == InitKeys /\ [][NextKeys]_vars

\* ---------------------------------------------------------------------
\* One writer, one call and its flush
\* ---------------------------------------------------------------------

\* the positions of _get_place that are not sorted-*
PlainPositions ==
    {"first-root", "last-root", "first-sibling", "left-sibling",
     "right-sibling", "last-sibling", "first-child", "last-child"}

InitOps == InitWith(OpsMaxId, OpsSteps)

NextOps ==
    \/ MoveToOp(1, MaxQueue, PlainPositions)
    \/ AddAtOp(1, MaxQueue, OpsMaxId + 1, PlainPositions)
    \/ SetPriorityOp(1, MaxQueue)
    \/ DeleteOp(1)
    \/ Run(1)

SpecOps == InitOps /\ [][NextOps]_vars

\* ---------------------------------------------------------------------
\* One call of move_to for every target and position
\* ---------------------------------------------------------------------

InitPlace == InitWith(PlaceMaxId, PlaceSteps)

NextPlace ==
    \/ MoveToOp(1, MaxQueue, Positions)
    \/ MoveToIntOp(1, MaxQueue)
    \/ MoveToRejected(1)

SpecPlace == InitPlace /\ [][NextPlace]_vars

\* ---------------------------------------------------------------------
\* One writer creating and updating rows in bulk
\* ---------------------------------------------------------------------

InitBulk == InitWith(BulkMaxId, BulkSteps)

NextBulk ==
    \/ BulkCreate(1, MaxQueue, BulkMaxId + BulkMax)
    \/ BulkUpdate(1, MaxQueue)
    \/ Run(1)

SpecBulk == InitBulk /\ [][NextBulk]_vars

\* ---------------------------------------------------------------------
\* One writer moving nodes, dumping and loading the tree
\* ---------------------------------------------------------------------

InitTree == InitWith(TreeMaxId, TreeSteps)

NextTree ==
    \/ MoveToOp(1, MaxQueue, PlainPositions)
    \/ Run(1)
    \/ LoadGetTree(1)

SpecTree == InitTree /\ [][NextTree]_vars

\* ---------------------------------------------------------------------
\* One writer adding roots
\* ---------------------------------------------------------------------

\* the positions add_root is called with that are not integers, "None" for
\* the call without a position
AddRootPositions == {"None"} \cup RootPositions \cup {"last-child"}

\* add_root raises ValueError for a position that is neither an integer nor
\* one of the three root positions, before an instance is made
AddRootRaises(position) == position \notin RootPositions

\* Model.add_root(position) with a position that is not an integer
AddRootOp(w, cap, limit) ==
    \E position \in AddRootPositions :
        /\ ops' = <<[op |-> "add_root", node |-> nextId,
                     position |-> position,
                     raised |-> AddRootRaises(position),
                     before |-> rows]>>
        /\ IF AddRootRaises(position)
           THEN /\ pc[w] = "idle"
                /\ Step
                /\ UNCHANGED <<rows, nextId, queue, sqlq, cache, pc, compiled,
                               locks, txn, lastRun>>
           ELSE SaveNewCapped(w, cap, limit, NULL,
                              GetPlace(rows, NULL, position)[2])

\* Model.add_root(position = n) with an integer n
AddRootIntOp(w, cap, limit) ==
    \E n \in IntPositions :
        /\ ops' = <<[op |-> "add_root_int", node |-> nextId, given |-> n,
                     before |-> rows]>>
        /\ SaveNewCapped(w, cap, limit, NULL, n)

InitRoots == InitWith(RootsMaxId, RootsSteps)

NextRoots ==
    \/ AddRootOp(1, MaxQueue, RootsMaxId + RootsSteps)
    \/ AddRootIntOp(1, MaxQueue, RootsMaxId + RootsSteps)
    \/ Run(1)

SpecRoots == InitRoots /\ [][NextRoots]_vars

\* ---------------------------------------------------------------------
\* One writer queuing tasks by hand and running the queue
\* ---------------------------------------------------------------------

\* Model.tasks.add("update", parent_id), called while fewer than cap tasks
\* are queued
AddTaskOp(w, cap) ==
    \E parent_id \in Ids(rows) \cup {NULL} :
        /\ pc[w] = "idle"
        /\ Len(queue[w]) < cap
        /\ Step
        /\ queue' = [queue EXCEPT ![w] = Add(@, parent_id)]
        /\ ops' = Noted(w, [op |-> "tasks.add", parent |-> parent_id,
                            before |-> rows])
        /\ lastRun' = [lastRun EXCEPT ![w] = NoRun]
        /\ UNCHANGED <<rows, nextId, sqlq, cache, pc, compiled, locks, txn>>

InitCoalesce == InitWith(CoalesceMaxId, CoalesceSteps)

NextCoalesce ==
    \/ AddTaskOp(1, CoalesceQueue)
    \/ Run(1)

SpecCoalesce == InitCoalesce /\ [][NextCoalesce]_vars

InitRebuild == InitWith(RebuildMaxId, RebuildSteps)

NextRebuild ==
    \/ AddTaskOp(1, RebuildQueue)
    \/ SetPriorityOp(1, RebuildQueue)
    \/ Run(1)

SpecRebuild == InitRebuild /\ [][NextRebuild]_vars

\* ---------------------------------------------------------------------
\* TreeMutationService.move_node beside the run() of another connection
\* ---------------------------------------------------------------------

\* _resolve_new_parent_id
ResolveNewParentId(rs, target, position) ==
    IF target = NULL THEN NULL
    ELSE IF position \in {"first-sibling", "left-sibling", "right-sibling",
                          "last-sibling", "sorted-sibling"}
    THEN rs[target].parent
    ELSE target

\* _get_affected_parent_ids, as a set
AffectedParentIds(rs, node, target, position) ==
    {rs[node].parent, ResolveNewParentId(rs, target, position)}

\* the rows move_node selects FOR UPDATE NOWAIT
MoveLockTargets(rs, node, target, position) ==
    UNION {Children(rs, p) : p \in AffectedParentIds(rs, node, target, position)}

\* how a move_node call that was granted its locks ends for a working list
\* of _optimize: the rows it leaves and whether it raises. Inside the atomic
\* block the connection.rollback() of run() raises out of its except clause
\* (outcome "raised"), which rolls the block back; after a
\* refused NOWAIT statement of run() the block ends committed, or rolled
\* back where the refused statement aborts the transaction
MoveEnds(w, rs, saved, q, id_list) ==
    IF q = <<>> THEN {[rows |-> saved, raised |-> FALSE, outcome |-> "none"]}
    ELSE LET opt == Optimize(saved, q, id_list)
             tasks == RunTasks(opt)
         IN  IF RunOutcome(saved, opt) = "error"
             THEN {[rows |-> rs, raised |-> TRUE, outcome |-> "raised"]}
             ELSE IF RunOutcome(saved, opt) = "empty"
             THEN {[rows |-> saved, raised |-> FALSE, outcome |-> "empty"]}
             ELSE IF LocksGranted(w, saved, tasks)
             THEN {[rows |-> CompileAll(saved, tasks), raised |-> FALSE,
                    outcome |-> "done"]}
             ELSE {[rows |-> r, raised |-> FALSE, outcome |-> "skipped"] :
                       r \in {saved, rs}}

\* a row under the parent the node has or under the parent _get_place gives
\* it is locked by another connection when move_node is called
Contended(w, node, target, position) ==
    LockedByOther(w,
        Children(rows, rows[node].parent)
            \cup Children(rows, GetPlace(rows, target, position)[1]))

\* the positions move_node is called with: one for the roots, one beside the
\* target, two under it
MovePositions == {"last-root", "left-sibling", "first-child", "last-child"}

\* move_node(node, target, position): a refused lock raises before move_to;
\* otherwise move_to and tasks.run() inside the atomic block
MoveNodeOp(w) ==
    \E node \in Ids(rows), target \in Ids(rows) \cup {NULL},
       position \in MovePositions :
        /\ pc[w] = "idle"
        /\ PlaceDefined(rows, target, position)
        /\ Step
        /\ IF LockedByOther(w, MoveLockTargets(rows, node, target, position))
           THEN /\ ops' = <<[op |-> "move_node", by |-> w,
                             contended |->
                                 Contended(w, node, target, position),
                             raised |-> TRUE, at |-> budget]>>
                /\ UNCHANGED <<rows, queue, cache, lastRun, compiled>>
           ELSE LET place == GetPlace(rows, target, position)
                    saved == SaveRows(rows, node, place[1], place[2])
                    q == SaveQueue(rows, queue[w], node, place[1], place[2])
                IN  \* the UPDATE statements of save() wait for locked rows
                    /\ ~LockedByOther(w, {node} \cup
                            IF IsMove(rows, node, place[1])
                            THEN ShiftedSiblings(rows, place[1], place[2])
                            ELSE {})
                    /\ IsMove(rows, node, place[1]) =>
                           ~KeyLockedByOther(w, place[1])
                    /\ \E id_list \in Orders(QueuedIds(q) \ {NULL}) :
                        \E end \in MoveEnds(w, rows, saved, q, id_list) :
                           \* and so do those of the compiler
                           /\ end.outcome = "done" =>
                                  ~LockedByOther(w,
                                      Touched(saved, RunTasks(
                                          Optimize(saved, q, id_list))))
                           /\ rows' = end.rows
                           /\ lastRun' = [lastRun EXCEPT ![w] =
                                  [outcome |-> end.outcome, queue |-> q,
                                   tasks |-> IF q = <<>> THEN <<>>
                                             ELSE RunTasks(Optimize(
                                                      saved, q, id_list))]]
                           /\ ops' = <<[op |-> "move_node", by |-> w,
                                        contended |->
                                            Contended(w, node, target,
                                                      position),
                                        raised |-> end.raised,
                                        at |-> budget]>>
                    /\ queue' = [queue EXCEPT ![w] = <<>>]
                    /\ cache' = Invalidate(cache)
                    /\ compiled' = [compiled EXCEPT ![w] = <<>>]
        /\ UNCHANGED <<nextId, sqlq, pc, locks, txn>>

InitMove == InitWith(MoveMaxId, MoveSteps)

\* one connection calls move_node, the other queues and runs tasks
NextMove ==
    \/ MoveNodeOp(1)
    \/ AddTaskOp(2, 1)
    \/ RunBegin(2)
    \/ RunCommit(2)

SpecMove == InitMove /\ [][NextMove]_vars

\* ---------------------------------------------------------------------
\* Two connections creating nodes, save() statement by statement
\* ---------------------------------------------------------------------

\* SQLService.get_next_id: the sequence of postgresql and oracle, MAX(id) + 1
\* on sqlite and mysql
GetNextId(db_vendor, rs, seq) ==
    IF db_vendor \in {"postgresql", "oracle"} THEN seq
    ELSE IF Ids(rs) = {} THEN 1
    ELSE (CHOOSE m \in Ids(rs) : \A i \in Ids(rs) : i <= m) + 1

\* save() of a new instance up to super().save(): the pk read, the path
\* generated, the siblings shifted, the task queued; txn holds the instance
SaveNewBegin(w, db_vendor) ==
    \E parent \in Ids(rows) \cup {NULL}, priority \in {0, BASE - 1} :
        LET pk == GetNextId(db_vendor, rows, nextId)
            path == GeneratePath(rows, parent, priority)
        IN  /\ pc[w] = "idle"
            /\ Step
            /\ txn' = [txn EXCEPT ![w] =
                          [i \in {pk} |->
                              Row(parent, priority, path, CountDots(path))]]
            /\ rows' = ShiftSiblingsForward(rows, parent, priority)
            /\ nextId' = IF db_vendor \in {"postgresql", "oracle"}
                         THEN nextId + 1 ELSE nextId
            /\ queue' = [queue EXCEPT ![w] = SaveNewQueue(@, parent)]
            /\ cache' = Invalidate(cache)
            /\ pc' = [pc EXCEPT ![w] = "updating"]
            /\ UNCHANGED <<sqlq, compiled, locks, lastRun, ops>>

\* super().save() with the pk set: UPDATE ... WHERE id = pk first; a row
\* updated ends the save
SaveNewUpdate(w) ==
    /\ pc[w] = "updating"
    /\ LET pk == CHOOSE i \in DOMAIN txn[w] : TRUE
       IN  IF pk \in Ids(rows)
           THEN /\ rows' = [rows EXCEPT ![pk] = txn[w][pk]]
                /\ txn' = [txn EXCEPT ![w] = EmptyRows]
                /\ pc' = [pc EXCEPT ![w] = "idle"]
                /\ ops' = <<[op |-> "save", by |-> w, pk |-> pk,
                             inserted |-> FALSE, raised |-> FALSE]>>
           ELSE /\ pc' = [pc EXCEPT ![w] = "inserting"]
                /\ UNCHANGED <<rows, txn, ops>>
    /\ UNCHANGED <<nextId, queue, sqlq, cache, compiled, locks, lastRun,
                   budget>>

\* super().save(): INSERT when no row was updated; a pk stored in the
\* meantime raises IntegrityError
SaveNewInsert(w) ==
    /\ pc[w] = "inserting"
    /\ LET pk == CHOOSE i \in DOMAIN txn[w] : TRUE
       IN  /\ rows' = IF pk \in Ids(rows) THEN rows
                      ELSE [i \in Ids(rows) \cup {pk} |->
                               IF i = pk THEN txn[w][pk] ELSE rows[i]]
           /\ ops' = <<[op |-> "save", by |-> w, pk |-> pk,
                        inserted |-> pk \notin Ids(rows),
                        raised |-> pk \in Ids(rows)]>>
    /\ txn' = [txn EXCEPT ![w] = EmptyRows]
    /\ pc' = [pc EXCEPT ![w] = "idle"]
    /\ UNCHANGED <<nextId, queue, sqlq, cache, compiled, locks, lastRun,
                   budget>>

InitIds == InitWith(IdsMaxId, IdsSteps)

\* the connections of one database, sqlite or mysql
NextIds ==
    \E w \in Writers :
        \/ SaveNewBegin(w, "sqlite")
        \/ SaveNewUpdate(w)
        \/ SaveNewInsert(w)

SpecIds == InitIds /\ [][NextIds]_vars

\* ---------------------------------------------------------------------
\* run() and the transaction it opens, beside another connection
\* ---------------------------------------------------------------------

RECURSIVE GrantedBefore(_, _, _)
\* the rows the FOR UPDATE NOWAIT statements of run() lock up to the first
\* one refused: none of the roots, the parents before the refused one
GrantedBefore(w, rs, tasks) ==
    IF tasks = <<>> \/ Head(tasks).parent_id = NULL THEN {}
    ELSE IF LockedByOther(w, {Head(tasks).parent_id} \cap Ids(rs)) THEN {}
    ELSE ({Head(tasks).parent_id} \cap Ids(rs))
             \cup GrantedBefore(w, rs, Tail(tasks))

\* run() returning before COMMIT, the transaction followed: no BEGIN when
\* _optimize raises or returns no task, connection.rollback() when a
\* compiler statement raises, and after a refused lock the return inside
\* the cursor block, no COMMIT and no rollback issued
RunLeaves(w) ==
    /\ queue[w] # <<>>
    /\ pc[w] = "idle"
    /\ Step
    /\ \E id_list \in Orders(QueuedIds(queue[w]) \ {NULL}) :
        LET opt == Optimize(rows, queue[w], id_list)
            tasks == RunTasks(opt)
            outcome == EarlyOutcome(w, rows, opt)
        IN  /\ \/ RunOutcome(rows, opt) # "done"
               \/ ~LocksGranted(w, rows, tasks)
            /\ RunOutcome(rows, opt) = "error" /\ opt.kind # "error"
                  /\ LocksGranted(w, rows, tasks)
                  => ~LockedByOther(w, Touched(rows, tasks))
            /\ lastRun' = [lastRun EXCEPT ![w] =
                   [outcome |-> outcome, queue |-> queue[w], tasks |-> tasks]]
            /\ pc' = [pc EXCEPT ![w] =
                   IF outcome = "skipped" THEN "in_transaction" ELSE "idle"]
            /\ locks' =
                   IF outcome = "skipped"
                   THEN [i \in DOMAIN locks \cup GrantedBefore(w, rows, tasks)
                            |-> IF i \in GrantedBefore(w, rows, tasks)
                                THEN [owner |-> w, mode |-> "update"]
                                ELSE locks[i]]
                   ELSE locks
    /\ queue' = [queue EXCEPT ![w] = <<>>]
    /\ compiled' = [compiled EXCEPT ![w] = <<>>]
    /\ UNCHANGED <<rows, nextId, sqlq, cache, txn, ops>>

InitTxn == InitWith(TxnMaxId, TxnSteps)

NextTxn ==
    \E w \in Writers :
        \/ AddTaskOp(w, 2)
        \/ RunBegin(w)
        \/ RunCommit(w)
        \/ RunLeaves(w)

SpecTxn == InitTxn /\ [][NextTxn]_vars

\* ---------------------------------------------------------------------
\* run() on every set of queued ids
\* ---------------------------------------------------------------------

\* the queues tasks.add leaves when called once for each id of a set of at
\* most n ids, in any order
QueuesOver(S, n) ==
    UNION {{[k \in 1..Len(o) |-> Task(o[k])] : o \in Orders(T)} :
              T \in {U \in SUBSET S : U # {} /\ Cardinality(U) <= n}}

InitOptimize ==
    /\ rows \in Forests(OptimizeMaxId)
    /\ nextId = Cardinality(Ids(rows)) + 1
    /\ queue \in {[w \in Writers |-> IF w = 1 THEN q ELSE <<>>] :
                      q \in QueuesOver(Ids(rows) \cup {NULL}, OptimizeQueue)}
    /\ sqlq = [w \in Writers |-> <<>>]
    /\ cache = EmptyCache
    /\ pc = [w \in Writers |-> "idle"]
    /\ compiled = [w \in Writers |-> <<>>]
    /\ locks = NoLocks
    /\ txn = [w \in Writers |-> EmptyRows]
    /\ lastRun = [w \in Writers |-> NoRun]
    /\ budget = OptimizeSteps
    /\ ops = <<>>

NextOptimize == Run(1)

SpecOptimize == InitOptimize /\ [][NextOptimize]_vars

\* ---------------------------------------------------------------------
\* A model with sorting_field and sorting_direction configured; its rows
\* carry a column name to sort by
\* ---------------------------------------------------------------------

SortingFields == {"priority", "name"}

SortingDirections == {"ASC", "DESC"}

\* ORDER BY of update_path puts i before j: c.priority, c.id for the
\* sorting_field priority, the sorting_field alone otherwise;
\* sorting_direction is not read
CompilerBefore(rs, sorting_field, i, j) ==
    IF sorting_field = "priority"
    THEN \/ rs[i].priority < rs[j].priority
         \/ rs[i].priority = rs[j].priority /\ i < j
    ELSE rs[i].name < rs[j].name

\* the orders in which the ROW_NUMBER() of update_path may take the rows:
\* rows that the ORDER BY does not tell apart come in any order
CompilerOrders(rs, sorting_field) ==
    {o \in Orders(Ids(rs)) :
        \A a, b \in 1..Len(o) :
            a < b => ~CompilerBefore(rs, sorting_field, o[b], o[a])}

\* ROW_NUMBER() OVER (PARTITION BY parent_id ORDER BY ...) - 1 of row i, the
\* rows taken in the order o
RankIn(rs, o, i) ==
    Cardinality({s \in Children(rs, rs[i].parent) :
                    (CHOOSE k \in 1..Len(o) : o[k] = s) <
                    (CHOOSE k \in 1..Len(o) : o[k] = i)})

RECURSIVE NewValsIn(_, _, _, _)
\* the tree_cte row of d, the rows numbered in the order o
NewValsIn(rs, p, d, o) ==
    LET new_priority == RankIn(rs, o, d)
        segment == Lpad(ToHex(new_priority), SEGMENT_LENGTH)
    IN  IF rs[d].parent = p
        THEN IF p = NULL
             THEN [priority |-> new_priority, path |-> segment, depth |-> 0]
             ELSE [priority |-> new_priority,
                   path |-> rs[p].path \o Dot \o segment,
                   depth |-> rs[p].depth + 1]
        ELSE LET t == NewValsIn(rs, p, rs[d].parent, o)
             IN  [priority |-> new_priority,
                  path |-> t.path \o Dot \o segment,
                  depth |-> t.depth + 1]

\* TreePathCompiler.update_path(model, parent_id = p) for a model with a
\* sorting_field, the rows numbered in the order o; for ~Diverges(rs, p)
UpdatePathSorted(rs, p, o) ==
    LET touched == IF p # NULL /\ p \notin Ids(rs) THEN {}
                   ELSE DescendantsOf(rs, p)
    IN  [i \in Ids(rs) |->
            IF i \in touched
            THEN LET t == NewValsIn(rs, p, i, o)
                 IN  [rs[i] EXCEPT !.priority = t.priority,
                                   !.path = t.path,
                                   !.depth = t.depth]
            ELSE rs[i]]

\* order_by of get_children_queryset and get_roots_queryset puts i before j:
\* the first ordering field reversed for DESC, then id for the sorting_field
\* priority
QuerysetBefore(rs, sorting_field, sorting_direction, i, j) ==
    IF sorting_field = "priority"
    THEN \/ IF sorting_direction = "ASC"
            THEN rs[i].priority < rs[j].priority
            ELSE rs[i].priority > rs[j].priority
         \/ rs[i].priority = rs[j].priority /\ i < j
    ELSE IF sorting_direction = "ASC"
         THEN rs[i].name < rs[j].name
         ELSE rs[i].name > rs[j].name

\* list(node.get_children_queryset()), list(Model.get_roots_queryset()) for
\* node = NULL: the lists the query may return
GetChildren(rs, node, sorting_field, sorting_direction) ==
    {o \in Orders(Children(rs, node)) :
        \A a, b \in 1..Len(o) :
            a < b => ~QuerysetBefore(rs, sorting_field, sorting_direction,
                                     o[b], o[a])}

\* the class attributes stay what the first call found them to be
SameModel(sorting_field, sorting_direction) ==
    ops # <<>> =>
        /\ ops[1].sorting_field = sorting_field
        /\ ops[1].sorting_direction = sorting_direction

\* TreePathCompiler.update_path(model, parent_id)
UpdatePathSortedOp ==
    \E parent_id \in Ids(rows) \cup {NULL}, sorting_field \in SortingFields,
       sorting_direction \in SortingDirections :
        \E o \in CompilerOrders(rows, sorting_field) :
            /\ SameModel(sorting_field, sorting_direction)
            /\ Step
            /\ rows' = UpdatePathSorted(rows, parent_id, o)
            /\ ops' = Append(ops, [op |-> "update_path",
                                   sorting_field |-> sorting_field,
                                   sorting_direction |-> sorting_direction,
                                   node |-> parent_id, result |-> <<>>,
                                   before |-> rows])
            /\ UNCHANGED <<nextId, queue, sqlq, cache, pc, compiled, locks,
                           txn, lastRun>>

\* node.get_children(), Model.get_roots() for node = NULL
GetChildrenOp ==
    \E node \in Ids(rows) \cup {NULL}, sorting_field \in SortingFields,
       sorting_direction \in SortingDirections :
        \E result \in GetChildren(rows, node, sorting_field,
                                   sorting_direction) :
            /\ SameModel(sorting_field, sorting_direction)
            /\ Step
            /\ ops' = Append(ops, [op |-> "get_children",
                                   sorting_field |-> sorting_field,
                                   sorting_direction |-> sorting_direction,
                                   node |-> node, result |-> result,
                                   before |-> rows])
            /\ UNCHANGED <<rows, nextId, queue, sqlq, cache, pc, compiled,
                           locks, txn, lastRun>>

\* the tables of at most n rows of such a model, no cycle in parent_id, any
\* priorities and names, as a full rebuild by priority and id writes them
SortedTables(n) ==
    UNION {{LET rs == [i \in 1..k |->
                          [parent |-> parents[i], priority |-> priorities[i],
                           path |-> <<>>, depth |-> 0, name |-> names[i]]]
            IN  UpdatePathSorted(rs, NULL,
                    CHOOSE o \in CompilerOrders(rs, "priority") : TRUE) :
               parents \in {f \in [1..k -> 0..k] :
                               \A i \in 1..k :
                                   ~Loops(RawRows(k, f, [j \in 1..k |-> j]), i)},
               priorities \in [1..k -> 0..(k - 1)],
               names \in [1..k -> 0..SortMaxName]} : k \in 1..n}

InitSort ==
    /\ rows \in SortedTables(SortMaxId)
    /\ nextId = Cardinality(Ids(rows)) + 1
    /\ queue = [w \in Writers |-> <<>>]
    /\ sqlq = [w \in Writers |-> <<>>]
    /\ cache = EmptyCache
    /\ pc = [w \in Writers |-> "idle"]
    /\ compiled = [w \in Writers |-> <<>>]
    /\ locks = NoLocks
    /\ txn = [w \in Writers |-> EmptyRows]
    /\ lastRun = [w \in Writers |-> NoRun]
    /\ budget = SortSteps
    /\ ops = <<>>

NextSort ==
    \/ UpdatePathSortedOp
    \/ GetChildrenOp

SpecSort == InitSort /\ [][NextSort]_vars

\* ---------------------------------------------------------------------
\* The TreeCache object with its bookkeeping, called from two threads
\* ---------------------------------------------------------------------

\* _EVICT_INTERVAL
EVICT_INTERVAL == 50

\* the keys stored: one cached method of two models
ObjKeys == {GenerateCacheKey(label, <<"g">>, 1) : label \in {LabelPlain, LabelOther}}

\* the sizes get_obj_size finds
ObjSizes == {1, 3, ObjMaxSize}

NoFrame == [key |-> <<>>, size |-> 0]

\* TreeCache.__init__ with the dict backend; set_counter as it stands after
\* that many set() calls
NewTreeCache(set_counter) ==
    [backend |-> [k \in {} |-> 0],
     order |-> <<>>,
     total_size |-> 0,
     prefix_index |-> [p \in {} |-> {}],
     sizes |-> [k \in {} |-> 0],
     key_prefix |-> [k \in {} |-> <<>>],
     set_counter |-> set_counter,
     frames |-> [w \in Writers |-> NoFrame]]

\* d[key] = value
Put(d, key, value) ==
    [k \in DOMAIN d \cup {key} |-> IF k = key THEN value ELSE d[k]]

\* d.pop(key, None) for every key of keys
Without(d, keys) == [k \in DOMAIN d \ keys |-> d[k]]

\* set(): self.cache[key] = stored_value
StoreValue(c, key, size) == [c EXCEPT !.backend = Put(@, key, size)]

\* set(): the block under the lock
BookValue(c, key, size) ==
    LET known == key \in DOMAIN c.sizes
        prefix == KeyPrefix(key)
    IN  [c EXCEPT
           !.total_size = (IF known THEN @ - c.sizes[key] ELSE @) + size,
           !.order = IF known THEN @ ELSE Append(@, key),
           !.key_prefix = IF known THEN @ ELSE Put(@, key, prefix),
           !.prefix_index =
               IF known THEN @
               ELSE Put(@, prefix,
                        (IF prefix \in DOMAIN @ THEN @[prefix] ELSE {})
                            \cup {key}),
           !.sizes = Put(@, key, size),
           !.set_counter = @ + 1]

RECURSIVE EvictCache(_)
\* _evict_cache: the oldest keys leave while total_size is above
\* _CLEARINT_THESHOLD = 0.8 of cache_limit
EvictCache(c) ==
    IF 5 * c.total_size > 4 * ObjLimit /\ c.order # <<>>
    THEN LET key == Head(c.order)
             size == IF key \in DOMAIN c.sizes THEN c.sizes[key] ELSE 0
             left == [p \in DOMAIN c.prefix_index |->
                         IF key \in DOMAIN c.key_prefix
                            /\ p = c.key_prefix[key]
                         THEN c.prefix_index[p] \ {key}
                         ELSE c.prefix_index[p]]
         IN  EvictCache(
                 [c EXCEPT
                    !.order = Tail(@),
                    !.backend = Without(@, {key}),
                    !.sizes = Without(@, {key}),
                    !.total_size = @ - size,
                    !.key_prefix = Without(@, {key}),
                    !.prefix_index =
                        [p \in {q \in DOMAIN left : left[q] # {}} |->
                            left[p]]])
    ELSE c

\* the sum of sizes over keys
RECURSIVE SumSizes(_, _)
SumSizes(sizes, keys) ==
    IF keys = {} THEN 0
    ELSE LET k == CHOOSE x \in keys : TRUE
         IN  (IF k \in DOMAIN sizes THEN sizes[k] ELSE 0)
                 + SumSizes(sizes, keys \ {k})

\* invalidate(prefix), all of it under the lock
InvalidateObj(c, label) ==
    LET prefix == label \o Underscore
        keys_to_remove == IF prefix \in DOMAIN c.prefix_index
                          THEN c.prefix_index[prefix] ELSE {}
    IN  IF keys_to_remove = {} THEN c
        ELSE [c EXCEPT
                !.backend = Without(@, keys_to_remove),
                !.total_size = @ - SumSizes(c.sizes, keys_to_remove),
                !.sizes = Without(@, keys_to_remove),
                !.key_prefix = Without(@, keys_to_remove),
                !.prefix_index = Without(@, {prefix}),
                !.order = SelectSeq(@, LAMBDA k : k \notin keys_to_remove)]

\* clear(): everything but _set_counter
ClearObj(c) ==
    [NewTreeCache(c.set_counter) EXCEPT !.frames = c.frames]

\* the frame of a step of the cache object
ObjOnly ==
    UNCHANGED <<rows, nextId, queue, sqlq, compiled, locks, txn, lastRun>>

\* set(key, value) up to the lock: the value is in the backend
SetStore(w) ==
    \E key \in ObjKeys, size \in ObjSizes :
        /\ pc[w] = "idle"
        /\ Step
        /\ cache' = [StoreValue(cache, key, size) EXCEPT
                        !.frames[w] = [key |-> key, size |-> size]]
        /\ pc' = [pc EXCEPT ![w] = "set_stored"]
        /\ ops' = <<[op |-> "set", by |-> w, returned |-> FALSE]>>
        /\ ObjOnly

\* set(): the block under the lock
SetBook(w) ==
    /\ pc[w] = "set_stored"
    /\ cache' = BookValue(cache, cache.frames[w].key, cache.frames[w].size)
    /\ pc' = [pc EXCEPT ![w] = "set_booked"]
    /\ UNCHANGED <<ops, budget>>
    /\ ObjOnly

\* set(): the test of _set_counter, the counter reset and _evict_cache when
\* it has reached _EVICT_INTERVAL, and the return
SetReturn(w) ==
    /\ pc[w] = "set_booked"
    /\ cache' = [(IF cache.set_counter >= EVICT_INTERVAL
                  THEN EvictCache([cache EXCEPT !.set_counter = 0])
                  ELSE cache) EXCEPT !.frames[w] = NoFrame]
    /\ pc' = [pc EXCEPT ![w] = "idle"]
    /\ ops' = <<[op |-> "set", by |-> w, returned |-> TRUE]>>
    /\ UNCHANGED budget
    /\ ObjOnly

\* get(key): the backend is read, nothing is written
GetObj(w) ==
    \E key \in ObjKeys :
        /\ pc[w] = "idle"
        /\ Step
        /\ ops' = <<[op |-> "get", by |-> w,
                     returned |-> key \in DOMAIN cache.backend]>>
        /\ UNCHANGED <<cache, pc>>
        /\ ObjOnly

\* invalidate(label)
InvalidateObjOp(w) ==
    \E label \in {LabelPlain, LabelOther} :
        /\ pc[w] = "idle"
        /\ Step
        /\ cache' = InvalidateObj(cache, label)
        /\ ops' = <<[op |-> "invalidate", by |-> w, returned |-> TRUE]>>
        /\ UNCHANGED pc
        /\ ObjOnly

\* clear()
ClearObjOp(w) ==
    /\ pc[w] = "idle"
    /\ Step
    /\ cache' = ClearObj(cache)
    /\ ops' = <<[op |-> "clear", by |-> w, returned |-> TRUE]>>
    /\ UNCHANGED pc
    /\ ObjOnly

\* _evict_cache()
EvictCacheOp(w) ==
    /\ pc[w] = "idle"
    /\ Step
    /\ cache' = EvictCache(cache)
    /\ ops' = <<[op |-> "_evict_cache", by |-> w, returned |-> TRUE]>>
    /\ UNCHANGED pc
    /\ ObjOnly

\* an empty cache after any number of set() calls since the last eviction
InitObj ==
    /\ rows = EmptyRows
    /\ nextId = 1
    /\ queue = [w \in Writers |-> <<>>]
    /\ sqlq = [w \in Writers |-> <<>>]
    /\ cache \in {NewTreeCache(n) : n \in {0, EVICT_INTERVAL - 1}}
    /\ pc = [w \in Writers |-> "idle"]
    /\ compiled = [w \in Writers |-> <<>>]
    /\ locks = NoLocks
    /\ txn = [w \in Writers |-> EmptyRows]
    /\ lastRun = [w \in Writers |-> NoRun]
    /\ budget = ObjMaxSteps
    /\ ops = <<>>

NextObj ==
    \E w \in Writers :
        \/ SetStore(w)
        \/ SetBook(w)
        \/ SetReturn(w)
        \/ GetObj(w)
        \/ InvalidateObjOp(w)
        \/ ClearObjOp(w)
        \/ EvictCacheOp(w)

SpecObj == InitObj /\ [][NextObj]_vars

\* ---------------------------------------------------------------------
\* Queries of the tree, the instance carrying the columns of its row
\* ---------------------------------------------------------------------

Slash == <<"/">>

\* get_ancestors reading the ancestors off the prefixes of _path (a faulty
\* variant)
GetAncestorsByPath(rs, node, include_self) ==
    LET S == {i \in Ids(rs) : StartsWith(rs[node].path, rs[i].path \o Dot)}
        up == CHOOSE o \in Orders(S) :
                  \A i, j \in 1..Len(o) :
                      i < j => Len(rs[o[i]].path) <= Len(rs[o[j]].path)
    IN  IF include_self THEN Append(up, node) ELSE up

\* TreeQuery.get_ancestors: ancestors_cte yields the parent, then the parent
\* of the parent and so on until NULL, the rows in the order the recursion
\* makes them; the node is put in front and the list is reversed. For a
\* node whose chain reaches NULL.
GetAncestors(rs, node, include_self) ==
    LET ancestor_ids == UpChain(rs, rs[node].parent, Cardinality(Ids(rs)))
    IN  Reverse(IF include_self THEN <<node>> \o ancestor_ids
                ELSE ancestor_ids)

\* the WHERE of TreeQuery.get_family: _path < %s OR (_path >= %s AND
\* _path < %s) with the _path of the node, the _path and '.', the _path
\* and '/'
FamilyWhere(rs, node) ==
    {i \in Ids(rs) :
        \/ PathLess(rs[i].path, rs[node].path)
        \/ /\ ~PathLess(rs[i].path, rs[node].path \o Dot)
           /\ PathLess(rs[i].path, rs[node].path \o Slash)}

\* TreeQuery.get_family: the ids the query may return, UNION ALL with the
\* row of the node when include_self, ORDER BY _depth, priority
GetFamily(rs, node, include_self) ==
    LET S == FamilyWhere(rs, node) \cup (IF include_self THEN {node} ELSE {})
    IN  {o \in Orders(S) :
            \A i, j \in 1..Len(o) :
                i < j => \/ rs[o[i]].depth < rs[o[j]].depth
                         \/ /\ rs[o[i]].depth = rs[o[j]].depth
                            /\ rs[o[i]].priority <= rs[o[j]].priority}

\* is_ancestor_of: target.id in target.query("ancestors", include_self=False)
IsAncestorOf(rs, self, target) ==
    target \in Range(GetAncestors(rs, target, FALSE))

\* is_descendant_of: target.id in
\* target.query("descendants", include_self=False)
IsDescendantOf(rs, self, target) ==
    target \in DescendantsPks(rs, target)

\* the frame of a query
QueryOnly ==
    UNCHANGED <<rows, nextId, queue, sqlq, cache, pc, compiled, locks, txn,
                lastRun>>

\* node.query("ancestors", include_self = ...)
AncestorsOp ==
    \E node \in Ids(rows), include_self \in BOOLEAN :
        /\ ~Loops(rows, node)
        /\ Step
        /\ ops' = <<[op |-> "ancestors", node |-> node,
                     include_self |-> include_self,
                     result |-> GetAncestors(rows, node, include_self),
                     before |-> rows]>>
        /\ QueryOnly

\* node.query("family", include_self = ...), that is get_family_pks()
FamilyOp ==
    \E node \in Ids(rows), include_self \in BOOLEAN :
        \E result \in GetFamily(rows, node, include_self) :
            /\ Step
            /\ ops' = <<[op |-> "family", node |-> node,
                         include_self |-> include_self,
                         result |-> result, before |-> rows]>>
            /\ QueryOnly

\* a.is_ancestor_of(b)
IsAncestorOfOp ==
    \E a, b \in Ids(rows) :
        /\ ~Loops(rows, b)
        /\ Step
        /\ ops' = <<[op |-> "is_ancestor_of", node |-> a, target |-> b,
                     answer |-> IsAncestorOf(rows, a, b), before |-> rows]>>
        /\ QueryOnly

\* a.is_descendant_of(b)
IsDescendantOfOp ==
    \E a, b \in Ids(rows) :
        /\ Step
        /\ ops' = <<[op |-> "is_descendant_of", node |-> a, target |-> b,
                     answer |-> IsDescendantOf(rows, a, b), before |-> rows]>>
        /\ QueryOnly

InitQuery == InitWith(QueryMaxId, QuerySteps)

NextQuery ==
    \/ MoveToOp(1, MaxQueue, PlainPositions)
    \/ Run(1)
    \/ AncestorsOp
    \/ FamilyOp
    \/ IsAncestorOfOp
    \/ IsDescendantOfOp

SpecQuery == InitQuery /\ [][NextQuery]_vars

\* ---------------------------------------------------------------------
\* One writer creating nodes at the priorities a caller may pass
\* ---------------------------------------------------------------------

\* the first, the last and the first priority past the last that a segment
\* of SEGMENT_LENGTH digits can spell
BoundaryPriorities == {0, BASE - 1, BASE}

\* parent.add_child(position = n), Model.add_root(position = n) and
\* objects.create(parent = ..., priority = n) with an integer n
CreateOp(w, cap, limit) ==
    \E parent \in Ids(rows) \cup {NULL}, priority \in BoundaryPriorities :
        /\ SaveNewCapped(w, cap, limit, parent, priority)
        /\ ops' = Noted(w, [op |-> "create", node |-> nextId,
                            parent |-> parent, given |-> priority,
                            before |-> rows])

InitOverflow == InitWith(OverflowMaxId, OverflowSteps)

NextOverflow ==
    \/ CreateOp(1, MaxQueue, OverflowMaxId + OverflowSteps)
    \/ Run(1)

SpecOverflow == InitOverflow /\ [][NextOverflow]_vars

\* ---------------------------------------------------------------------
\* The compiler called on any table
\* ---------------------------------------------------------------------

\* every table of at most n rows: any parent_id, a cycle or a row that is its
\* own parent included, any priorities, equal ones included, and the field
\* defaults in _path and _depth
Tables(n) ==
    UNION {{[i \in 1..k |-> Row(parents[i], priorities[i], <<>>, 0)] :
               parents \in [1..k -> 0..k],
               priorities \in [1..k -> 0..(k - 1)]} : k \in 1..n}

\* TreePathCompiler.update_path(model, parent_id) called on the table as it
\* is; on a cycle through parent_id the recursive query never yields and the
\* UPDATE is not applied
UpdatePathOp(parent_id) ==
    /\ Step
    /\ rows' = IF Diverges(rows, parent_id) THEN rows
               ELSE UpdatePath(rows, parent_id)
    /\ ops' = Append(ops, [op |-> "update_path", parent_id |-> parent_id,
                           raised |-> Diverges(rows, parent_id),
                           before |-> rows])
    /\ UNCHANGED <<nextId, queue, sqlq, cache, pc, compiled, locks, txn,
                   lastRun>>

InitCompile ==
    /\ rows \in Tables(CompileMaxId)
    /\ nextId = Cardinality(Ids(rows)) + 1
    /\ queue = [w \in Writers |-> <<>>]
    /\ sqlq = [w \in Writers |-> <<>>]
    /\ cache = EmptyCache
    /\ pc = [w \in Writers |-> "idle"]
    /\ compiled = [w \in Writers |-> <<>>]
    /\ locks = NoLocks
    /\ txn = [w \in Writers |-> EmptyRows]
    /\ lastRun = [w \in Writers |-> NoRun]
    /\ budget = CompileSteps
    /\ ops = <<>>

NextCompile == \E parent_id \in 0..CompileMaxId : UpdatePathOp(parent_id)

SpecCompile == InitCompile /\ [][NextCompile]_vars

\* ---------------------------------------------------------------------
\* One writer appending several nodes before the flush
\* ---------------------------------------------------------------------

AppendPositions == {"last-root", "last-sibling", "last-child"}

InitAppend == InitWith(AppendMaxId, AppendSteps)

NextAppend ==
    \/ MoveToOp(1, AppendQueue, AppendPositions)
    \/ AddAtOp(1, AppendQueue, AppendMaxId, AppendPositions)
    \/ Run(1)

SpecAppend == InitAppend /\ [][NextAppend]_vars

\* ---------------------------------------------------------------------
\* Properties
\* ---------------------------------------------------------------------

\* the task queue and the statement queue of w are empty, no run() is open
Flushed(w) == queue[w] = <<>> /\ sqlq[w] = <<>> /\ pc[w] = "idle"

\* every row carries the path of its parent, a dot and its own segment
PathInvariant(rs) ==
    \A i \in Ids(rs) :
        rs[i].path = IF rs[i].parent = NULL
                     THEN Segment(rs[i].priority)
                     ELSE rs[rs[i].parent].path \o Dot \o Segment(rs[i].priority)

\* the priorities under every parent are 0..k-1, none twice
DensePriorities(rs) ==
    \A p \in Ids(rs) \cup {NULL} :
        LET k == Cardinality(Children(rs, p))
        IN  /\ {rs[i].priority : i \in Children(rs, p)} = 0..(k - 1)
            /\ \A i, j \in Children(rs, p) :
                   rs[i].priority = rs[j].priority => i = j

DepthInvariant(rs) ==
    \A i \in Ids(rs) : rs[i].depth = CountDots(rs[i].path)

NoCycle(rs) == \A i \in Ids(rs) : ~Loops(rs, i)

\* the parent ids of a task list
TaskIds(tasks) == {tasks[k].parent_id : k \in 1..Len(tasks)}

\* the lowest common ancestor of a and b, a node being an ancestor of
\* itself; NULL when they share none
Lca(rs, a, b) ==
    LET common == (AncestorsOf(rs, a) \cup {a}) \cap (AncestorsOf(rs, b) \cup {b})
    IN  IF common = {} THEN NULL
        ELSE CHOOSE c \in common : \A d \in common \ {c} : d \in AncestorsOf(rs, c)

\* C1: once the task queue has been run and is empty, every non-root row
\* has _path = parent._path + '.' + fmt(priority) and every root row has
\* _path = fmt(priority); stated for the tables in which no move has closed
\* a cycle, which is what C3 is about.
C1_PathAfterFlush == Flushed(1) /\ NoCycle(rows) => PathInvariant(rows)

\* C2: after a queue flush the priorities of the rows sharing a parent_id
\* (NULL included) are exactly 0..k-1, without gap or duplicate; stated for
\* the tables without a cycle.
C2_DenseAfterFlush == Flushed(1) /\ NoCycle(rows) => DensePriorities(rows)

\* C3: no sequence of operations creates a cycle in parent_id: every
\* parent_id chain ends at NULL.
C3_NoCycleEver == NoCycle(rows)

\* C4: for every queued parent id q that exists in the table, the task
\* list _optimize returns holds the NULL task, q itself or an ancestor of q.
C4_CoalesceCovers ==
    lastRun[1].outcome \in {"done", "empty"} =>
        \A q \in (QueuedIds(lastRun[1].queue) \ {NULL}) \cap Ids(rows) :
            \/ NULL \in TaskIds(lastRun[1].tasks)
            \/ q \in TaskIds(lastRun[1].tasks)
            \/ AncestorsOf(rows, q) \cap TaskIds(lastRun[1].tasks) # {}

\* C5: with the task queue empty, the rows whose _path starts with
\* r._path + '.' are exactly the rows below r along parent_id; stated for
\* the tables without a cycle.
C5_DescendantsByPath ==
    Flushed(1) /\ NoCycle(rows) =>
        \A r \in Ids(rows) : DescendantsPks(rows, r) = DescendantsOf(rows, r)

\* C6: whenever the task queue is empty, every row has _depth equal to the
\* number of '.' in its _path.
C6_DepthCountsDots == queue[1] = <<>> => DepthInvariant(rows)

\* a run has rebuilt a table with a row two levels down
C6_Witness ==
    /\ queue[1] = <<>>
    /\ lastRun[1].outcome = "done"
    /\ \E i \in Ids(rows) : rows[i].depth = 2 /\ CountDots(rows[i].path) = 2

\* C7: a queue of two parent ids a and b with lowest common ancestor c is
\* coalesced to exactly {c}, and to the single task {NULL} when c is a root.
C7_CoalesceToLca ==
    \A a, b \in Ids(rows) :
        /\ lastRun[1].outcome \in {"done", "empty"}
        /\ NoCycle(rows)
        /\ a # b
        /\ QueuedIds(lastRun[1].queue) = {a, b}
        /\ Lca(rows, a, b) # NULL
        => TaskIds(lastRun[1].tasks) =
              IF Lca(rows, a, b) \in RootIds(rows)
              THEN {NULL} ELSE {Lca(rows, a, b)}

\* w takes its queue into run() in this step
RunStarts(w) ==
    /\ queue[w] # <<>>
    /\ pc[w] = "idle"
    /\ lastRun'[w].outcome # "none"

\* C8: when a row lock run() asks for is not immediately available, run()
\* returns without raising, hands no task to the compiler and changes no
\* row's priority, _path or _depth.
C8_LockUnavailableNoop ==
    [][\A w \in Writers :
          RunStarts(w) /\ LockedByOther(w, LockTargets(rows, lastRun'[w].tasks))
          => /\ lastRun'[w].outcome = "skipped"
             /\ pc'[w] = "idle"
             /\ compiled'[w] = <<>>
             /\ txn'[w] = EmptyRows
             /\ rows' = rows
             /\ locks' = locks]_vars

\* a run has been skipped while the other writer's transaction is open
C8_Witness ==
    \E w, v \in Writers :
        /\ lastRun[w].outcome = "skipped"
        /\ lastRun[w].tasks # <<>>
        /\ compiled[w] = <<>>
        /\ pc[v] = "compiled"
        /\ LockedByOther(w, LockTargets(rows, lastRun[w].tasks))

\* C9: two writers have changed children of the same parent and run their
\* queues, one run skipped on the lock of the other: once both runs have
\* returned, the path, depth and dense-priority invariants hold below that
\* parent; stated for the tables without a cycle.
C9_ConsistentAfterSkip ==
    \A w, v \in Writers, p \in Ids(rows) \cup {NULL} :
        /\ Flushed(w) /\ Flushed(v)
        /\ lastRun[w].outcome = "skipped"
        /\ lastRun[v].outcome = "done"
        /\ p \in QueuedIds(lastRun[w].queue) \cap QueuedIds(lastRun[v].queue)
        /\ NoCycle(rows)
        => /\ PathInvariant(rows)
           /\ DepthInvariant(rows)
           /\ DensePriorities(rows)

\* C10: once a mutation and the queue flush that rebuilds its paths have
\* finished, a cached accessor returns what the uncached computation yields
\* on the current table.
C10_CacheFreshAfterFlush ==
    Flushed(1) /\ lastRun[1].outcome = "done" =>
        \A key \in DOMAIN cache : cache[key] = DescendantsPks(rows, key[2])

\* C11: invalidate(label) drops every stored key generated with that label
\* and no key generated with another label.
C11_InvalidateByLabel ==
    [][\A label \in Labels :
          ops' = <<[op |-> "invalidate", label |-> label]>> =>
              \A func_name \in FuncNames, pk \in 1..KeyMaxId, other \in Labels :
                  LET key == GenerateCacheKey(other, func_name, pk)
                  IN  IF other = label
                      THEN Miss(cache', key)
                      ELSE Miss(cache', key) = Miss(cache, key)]_vars

\* C12: an accessor that reads _path or _depth runs the task queue first:
\* when get_descendants_pks computes its result, no task is left queued.
C12_AccessorsFlush ==
    [][\A node \in Ids(rows) :
          LET key == CacheKey("get_descendants_pks", node)
          IN  key \in DOMAIN cache' /\ key \notin DOMAIN cache =>
                  /\ queue'[1] = <<>>
                  /\ cache'[key] = DescendantsPks(rows', node)]_vars

\* the last run() of writer 1 committed a rebuild that reaches the children
\* of p
Covered(p) ==
    /\ lastRun[1].outcome = "done"
    /\ \E t \in TaskIds(lastRun[1].tasks) :
           t = NULL \/ t = p \/ t \in AncestorsOf(rows, p)

\* node is the child of p at priority pr, its _path and _depth built on p's
PlacedAt(rs, node, p, pr) ==
    /\ node \in Ids(rs)
    /\ rs[node].parent = p
    /\ rs[node].priority = pr
    /\ rs[node].path = IF p = NULL THEN Segment(pr)
                       ELSE rs[p].path \o Dot \o Segment(pr)
    /\ rs[node].depth = IF p = NULL THEN 0 ELSE rs[p].depth + 1

\* the calls noted are appends of different nodes to one parent
AppendsTo(p) ==
    /\ ops # <<>>
    /\ \A i \in 1..Len(ops) :
           /\ ops[i].op \in {"move_to", "add"}
           /\ ops[i].position \in AppendPositions
           /\ ops[i].parent = p
    /\ \A i, j \in 1..Len(ops) : ops[i].node = ops[j].node => i = j

\* C13: after nodes were appended to a parent ('last-child', 'last-sibling',
\* 'last-root') and the queue was flushed, they are the last of its k
\* children, in the order they were appended, with _path and _depth built
\* on the parent's; stated for the tables without a cycle and the flushes
\* whose rebuild reaches the parent.
C13_AppendIsLast ==
    \A p \in Ids(rows) \cup {NULL} :
        Flushed(1) /\ NoCycle(rows) /\ AppendsTo(p) /\ Covered(p) =>
            LET k == Cardinality(Children(rows, p))
                m == Len(ops)
            IN  \A i \in 1..m : PlacedAt(rows, ops[i].node, p, k - m + i - 1)

\* the single call noted is a move_to of a node to another node's side or
\* first place, flushed by a rebuild that reaches the new parent
MovedBeside(position) ==
    /\ Flushed(1)
    /\ NoCycle(rows)
    /\ Len(ops) = 1
    /\ ops[1].op = "move_to"
    /\ ops[1].position = position
    /\ ops[1].node # ops[1].target
    /\ Covered(ops[1].parent)

\* C14: after move_to(target, position) and a flush the node is a child of
\* the designated parent, immediately after target for 'right-sibling',
\* immediately before it for 'left-sibling', at priority 0 for
\* 'first-sibling' and 'first-child', whether it came from another parent or
\* was a sibling already; stated for the tables without a cycle and the
\* flushes whose rebuild reaches the parent.
C14_MoveBeside ==
    LET node == ops[1].node
        target == ops[1].target
    IN  /\ MovedBeside("right-sibling") =>
               /\ rows[node].parent = rows[target].parent
               /\ rows[node].priority = rows[target].priority + 1
        /\ MovedBeside("left-sibling") =>
               /\ rows[node].parent = rows[target].parent
               /\ rows[node].priority + 1 = rows[target].priority
        /\ MovedBeside("first-sibling") =>
               /\ rows[node].parent = rows[target].parent
               /\ rows[node].priority = 0
        /\ MovedBeside("first-child") =>
               /\ rows[node].parent = target
               /\ rows[node].priority = 0

\* C15: save() of a stored node whose priority changed while its parent did
\* not (set_priority) shifts the siblings at or after the new priority
\* forward by one and queues a rebuild of its parent.
C15_ShiftOnPriorityChange ==
    [][ops' # ops /\ ops'[Len(ops')].op = "set_priority" =>
          LET node == ops'[Len(ops')].node
              priority == ops'[Len(ops')].priority
              parent == rows[node].parent
          IN  priority # rows[node].priority =>
                  /\ \A s \in Children(rows, parent) \ {node} :
                         rows'[s].priority =
                             IF rows[s].priority >= priority
                             THEN rows[s].priority + 1
                             ELSE rows[s].priority
                  /\ parent \in QueuedIds(queue'[1])]_vars

\* delete(cascade) of a node has just returned, no statement of its flush
\* having raised
Deleted(cascade) ==
    /\ Len(ops) = 1
    /\ ops[1].op = "delete"
    /\ ops[1].cascade = cascade
    /\ lastRun[1].outcome = "none"
    /\ sqlq[1] = <<>>

\* the children of p carry the priorities 0..k-1 and every row below p the
\* _path and _depth built on its parent's
Renumbered(rs, p) ==
    /\ {rs[i].priority : i \in Children(rs, p)} =
           0..(Cardinality(Children(rs, p)) - 1)
    /\ \A i \in DescendantsOf(rs, p) :
           PlacedAt(rs, i, rs[i].parent, rs[i].priority)

\* C16: delete(cascade = True) removes exactly the node and its descendants,
\* leaves the parent_id of every other row unchanged, and on return the
\* remaining children of the former parent are numbered 0..k-1 with _path
\* and _depth updated.
C16_CascadeDelete ==
    Deleted(TRUE) =>
        LET before == ops[1].before
            node == ops[1].node
        IN  /\ Ids(rows) = Ids(before) \ ({node} \cup DescendantsOf(before, node))
            /\ \A i \in Ids(rows) : rows[i].parent = before[i].parent
            /\ Renumbered(rows, before[node].parent)

\* C17: delete(cascade = False) removes the node only, gives its direct
\* children its own parent_id and leaves the parent_id of every other row
\* unchanged; on return the children of the former parent are numbered
\* 0..k-1 and the promoted subtrees carry consistent _path and _depth.
C17_PromotingDelete ==
    Deleted(FALSE) =>
        LET before == ops[1].before
            node == ops[1].node
        IN  /\ Ids(rows) = Ids(before) \ {node}
            /\ \A i \in Ids(rows) :
                   rows[i].parent = IF before[i].parent = node
                                    THEN before[node].parent
                                    ELSE before[i].parent
            /\ Renumbered(rows, before[node].parent)

\* a node with descendants has been deleted with them, and a later sibling
\* has moved up by one
C16_Witness ==
    /\ Deleted(TRUE)
    /\ DescendantsOf(ops[1].before, ops[1].node) # {}
    /\ \E s \in Ids(rows) :
           /\ ops[1].before[s].parent = ops[1].before[ops[1].node].parent
           /\ ops[1].before[s].priority > ops[1].before[ops[1].node].priority
           /\ rows[s].priority = ops[1].before[s].priority - 1

\* the place the table of positions gives for target as it stood in rs
TablePlace(rs, target, position) ==
    LET parent == IF target = NULL THEN NULL ELSE rs[target].parent
        priority == IF target = NULL THEN 0 ELSE rs[target].priority
    IN  IF position \in {"first-root", "sorted-root"} THEN <<NULL, 0>>
        ELSE IF position = "last-root" THEN <<NULL, BASE - 1>>
        ELSE IF position \in {"first-sibling", "sorted-sibling"}
        THEN <<parent, 0>>
        ELSE IF position = "left-sibling" THEN <<parent, priority>>
        ELSE IF position = "right-sibling" THEN <<parent, priority + 1>>
        ELSE IF position = "last-sibling" THEN <<parent, BASE - 1>>
        ELSE IF position \in {"first-child", "sorted-child"}
        THEN <<target, 0>>
        ELSE <<target, BASE - 1>>

\* C18: move_to stores the parent and the priority the table of positions
\* gives (first-root (NULL, 0), last-root (NULL, BASE-1), first-sibling
\* (target.parent, 0), left-sibling (target.parent, target.priority),
\* right-sibling (target.parent, target.priority + 1), last-sibling
\* (target.parent, BASE-1), first-child (target, 0), last-child
\* (target, BASE-1), sorted-* as first-*, an integer n (target, n)); any
\* other position is rejected and nothing is saved.
C18_PlaceTable ==
    ops # <<>> =>
        LET call == ops[Len(ops)]
            now == rows[call.node]
        IN  /\ call.op = "move_to" =>
                <<now.parent, now.priority>> =
                    TablePlace(call.before, call.target, call.position)
            /\ call.op = "move_to_int" =>
                <<now.parent, now.priority>> = <<call.target, call.n>>
            /\ call.op = "rejected" =>
                /\ call.position \notin Positions
                /\ rows = call.before
                /\ queue[1] = call.queued

\* a node has been moved to the right of a target that is not first
C18_Witness ==
    /\ ops # <<>>
    /\ ops[Len(ops)].op = "move_to"
    /\ ops[Len(ops)].position = "right-sibling"
    /\ ops[Len(ops)].before[ops[Len(ops)].target].priority = 1
    /\ rows[ops[Len(ops)].node].priority = 2
    /\ rows[ops[Len(ops)].node].parent
           # ops[Len(ops)].before[ops[Len(ops)].node].parent

\* the children of p carry the priorities 0..k-1
DenseUnder(rs, p) ==
    {rs[i].priority : i \in Children(rs, p)} =
        0..(Cardinality(Children(rs, p)) - 1)

\* the last call noted is op and no run() has followed it
Called(op) ==
    /\ ops # <<>>
    /\ ops[Len(ops)].op = op
    /\ lastRun[1].outcome = "none"

\* the last call noted is op and run() has emptied the queue since
FlushedAfter(op) ==
    /\ ops # <<>>
    /\ ops[Len(ops)].op = op
    /\ lastRun[1].outcome # "none"
    /\ Flushed(1)

\* the queue holds what it held before the call and one task for each
\* parent id of the call, or the NULL task alone when NULL is among them
QueuedPerParent(call) ==
    IF NULL \in call.parents
    THEN queue[1] = <<Task(NULL)>>
    ELSE /\ Len(queue[1]) = Len(call.queued) + Cardinality(call.parents)
         /\ SubSeq(queue[1], 1, Len(call.queued)) = call.queued
         /\ QueuedIds(SubSeq(queue[1], Len(call.queued) + 1, Len(queue[1])))
                = call.parents

\* C19: bulk_create queues one rebuild task for each distinct parent_id of
\* the created rows, or the NULL task alone when one of them is a root, and
\* after the flush every created row has a dense priority among its
\* siblings and the _path and _depth built on its parent's.
C19_BulkCreate ==
    /\ Called("bulk_create") => QueuedPerParent(ops[Len(ops)])
    /\ FlushedAfter("bulk_create") =>
           \A n \in ops[Len(ops)].nodes :
               /\ DenseUnder(rows, rows[n].parent)
               /\ PlacedAt(rows, n, rows[n].parent, rows[n].priority)

\* the children of p carry the _path and _depth built on p's
PathsUnder(rs, p) ==
    \A c \in Children(rs, p) : PlacedAt(rs, c, p, rs[c].priority)

\* C20: bulk_update queues a rebuild for every parent that gained, lost or
\* reordered a child (the NULL task standing for all of them), so that
\* after the flush the priorities are dense and the paths consistent under
\* the new and the previous parent of every updated row; stated for the
\* tables without a cycle.
C20_BulkUpdate ==
    /\ Called("bulk_update") /\ NoCycle(rows) =>
           \A n \in ops[Len(ops)].nodes :
               \/ NULL \in QueuedIds(queue[1])
               \/ {rows[n].parent, ops[Len(ops)].before[n].parent}
                      \subseteq QueuedIds(queue[1])
    /\ FlushedAfter("bulk_update") /\ NoCycle(rows) =>
           \A n \in ops[Len(ops)].nodes :
               \A p \in {rows[n].parent, ops[Len(ops)].before[n].parent} :
                   p \in Ids(rows) \cup {NULL} =>
                       DenseUnder(rows, p) /\ PathsUnder(rows, p)

\* C21: load_tree(get_tree(root)), for a root or the whole forest, called
\* with an empty queue leaves every id with the parent_id it had and the
\* siblings under every parent in the order they had, and adds or removes
\* no row.
C21_RoundTrip ==
    ops # <<>> /\ ops[Len(ops)].op = "load_tree" =>
        LET before == ops[Len(ops)].before
        IN  /\ Ids(rows) = Ids(before)
            /\ \A i \in Ids(rows) :
                   /\ rows[i].parent = before[i].parent
                   /\ Rank(rows, i) = Rank(before, i)

\* a subtree of two levels with two siblings in it has been dumped and
\* loaded
C21_Witness ==
    /\ ops # <<>>
    /\ ops[Len(ops)].op = "load_tree"
    /\ ops[Len(ops)].instance # NULL
    /\ \E i, j \in Ids(rows) :
           /\ i # j
           /\ rows[i].parent = ops[Len(ops)].instance
           /\ rows[j].parent = ops[Len(ops)].instance

\* the table after the k-th update_path of ops
AfterCall(k) == IF k = Len(ops) THEN rows ELSE ops[k + 1].before

C29_Frame ==
    \A k \in 1..Len(ops) :
        ops[k].op = "update_path" =>
            LET b == ops[k].before
                a == AfterCall(k)
                p == ops[k].parent_id
            IN  /\ Ids(a) = Ids(b)
                /\ \A i \in Ids(b) :
                       /\ a[i].parent = b[i].parent
                       /\ (p # NULL /\ (i = p \/ p \notin AncestorsOf(b, i)))
                              => a[i] = b[i]

C29_Witness ==
    /\ Len(ops) >= 1 /\ ops[Len(ops)].op = "update_path"
    /\ ops[Len(ops)].parent_id \in Ids(rows)
    /\ ~ops[Len(ops)].raised
    /\ \E i, j \in Ids(rows) :
           /\ rows[i].parent = ops[Len(ops)].parent_id
           /\ rows[i] # ops[Len(ops)].before[i]
           /\ ops[Len(ops)].parent_id \notin AncestorsOf(rows, j)
           /\ j # ops[Len(ops)].parent_id

\* the path is segments of exactly SEGMENT_LENGTH hexadecimal digits, joined
\* by dots
FixedWidth(path) ==
    /\ (Len(path) + 1) % (SEGMENT_LENGTH + 1) = 0
    /\ \A k \in 1..Len(path) :
           IF k % (SEGMENT_LENGTH + 1) = 0
           THEN path[k] = "."
           ELSE path[k] \in Range(HexDigits)

\* C23: no operation stores a _path with a segment that is not exactly
\* SEGMENT_LENGTH hexadecimal digits: a creation that would need a wider
\* segment is refused and leaves the table as it was.
C23_SegmentWidth == \A i \in Ids(rows) : FixedWidth(rows[i].path)

\* the last call noted is the query op
Asked(op) == ops # <<>> /\ ops[Len(ops)].op = op

\* the table with the parent_id of every row and nothing else
ParentsOnly(rs) == [i \in Ids(rs) |-> Row(rs[i].parent, 0, <<>>, 0)]

\* C24: query('ancestors', include_self) returns the parent_id chain of the
\* node from the root down to its parent, then the node itself when
\* include_self, and the same list for any two tables with the same
\* parent_id column.
C24_Ancestors ==
    Asked("ancestors") =>
        LET call == ops[Len(ops)]
            b == call.before
            s == call.result
            last == IF call.include_self THEN call.node
                    ELSE b[call.node].parent
        IN  /\ \A k \in 1..(Len(s) - 1) : b[s[k + 1]].parent = s[k]
            /\ s # <<>> => b[s[1]].parent = NULL
            /\ IF last = NULL THEN s = <<>>
               ELSE s # <<>> /\ s[Len(s)] = last
            /\ s = GetAncestors(ParentsOnly(b), call.node, call.include_self)

C24_Witness ==
    /\ Asked("ancestors")
    /\ Len(ops[Len(ops)].result) = 3
    /\ queue[1] # <<>>
    /\ ops[Len(ops)].include_self

\* C25: family(node, include_self) returns the ancestors of the node, its
\* descendants, the node itself when include_self, and no other row.
C25_Family ==
    Asked("family") /\ queue[1] = <<>> =>
        LET call == ops[Len(ops)]
            b == call.before
        IN  Range(call.result) =
                AncestorsOf(b, call.node) \cup
                {i \in Ids(b) : call.node \in AncestorsOf(b, i)} \cup
                (IF call.include_self THEN {call.node} ELSE {})

\* C26: with an empty queue, a.is_ancestor_of(b) answers whether a is a
\* proper ancestor of b along parent_id, and a.is_descendant_of(b) whether
\* b is a proper ancestor of a.
C26_AncestorPredicates ==
    queue[1] = <<>> =>
        /\ Asked("is_ancestor_of") =>
               LET call == ops[Len(ops)]
               IN  call.answer <=> call.node \in AncestorsOf(call.before, call.target)
        /\ Asked("is_descendant_of") =>
               LET call == ops[Len(ops)]
               IN  call.answer <=> call.target \in AncestorsOf(call.before, call.node)

\* run() has just returned, the queue it ran holding tasks for exactly the
\* ids of S
RanOn(S) ==
    /\ lastRun[1].outcome # "none"
    /\ QueuedIds(lastRun[1].queue) = S

\* x is a root and y a node at depth 2 below another root
AcrossTrees(rs, x, y) ==
    /\ rs[x].parent = NULL
    /\ rs[y].parent # NULL
    /\ rs[rs[y].parent].parent # NULL
    /\ rs[rs[rs[y].parent].parent].parent = NULL
    /\ rs[rs[y].parent].parent # x

\* C27: a queue holding the tasks of X, a root, and of Y, a node at depth 2
\* below another root, is coalesced into the single task of the whole
\* forest.
C27_AcrossTrees ==
    \A x, y \in Ids(rows) :
        RanOn({x, y}) /\ AcrossTrees(rows, x, y) =>
            lastRun[1].tasks = <<Task(NULL)>>

\* C30: when a task of the queue has parent_id NULL, whatever the other
\* tasks and their order, _optimize returns the single task of the whole
\* forest and run() rebuilds the whole forest once: the one task compiled
\* is that task, every parent_id and every order of siblings is kept, and
\* priorities, paths and depths satisfy their invariants.
C30_NullTaskWins ==
    /\ lastRun[1].outcome # "none"
    /\ NULL \in QueuedIds(lastRun[1].queue)
    /\ Asked("tasks.add")
    =>  LET before == ops[Len(ops)].before
        IN  /\ lastRun[1].tasks = <<Task(NULL)>>
            /\ lastRun[1].outcome = "done"
            /\ compiled[1] = <<Task(NULL)>>
            /\ Ids(rows) = Ids(before)
            /\ \A i \in Ids(rows) :
                   /\ rows[i].parent = before[i].parent
                   /\ Rank(rows, i) = Rank(before, i)
            /\ PathInvariant(rows)
            /\ DensePriorities(rows)
            /\ DepthInvariant(rows)

C30_Witness ==
    /\ lastRun[1].outcome = "done"
    /\ Asked("tasks.add")
    /\ rows # ops[Len(ops)].before
    /\ Len(lastRun[1].queue) = 3
    /\ lastRun[1].queue[2] = Task(NULL)
    /\ lastRun[1].queue[1] # Task(NULL)
    /\ lastRun[1].queue[3] # lastRun[1].queue[1]

\* the node of the last call is stored as a root
AddedAsRoot ==
    LET call == ops[Len(ops)]
    IN  /\ call.node \in Ids(rows)
        /\ call.node \notin Ids(call.before)
        /\ rows[call.node].parent = NULL

\* C28: add_root() without a position stores the new node as a root, and
\* once the queue is flushed the node is the last of the roots; add_root
\* with 'first-root', 'last-root', 'sorted-root' or an integer stores the
\* new node with parent NULL.
C28_AddRoot ==
    /\ Asked("add_root_int") => AddedAsRoot
    /\ Asked("add_root") /\ ops[Len(ops)].position \in RootPositions
           => AddedAsRoot
    /\ Asked("add_root") /\ ops[Len(ops)].position = "None" =>
           /\ AddedAsRoot
           /\ FlushedAfter("add_root") =>
                  Rank(rows, ops[Len(ops)].node) =
                      Cardinality(Children(rows, NULL)) - 1

\* C31: the task list _optimize returns holds no id twice, no id together
\* with one of its ancestors, and NULL only alone.
C31_NoOverlap ==
    lastRun[1].outcome # "none" =>
        LET tasks == lastRun[1].tasks
        IN  \A j, k \in 1..Len(tasks) :
                j # k =>
                    /\ tasks[j].parent_id # tasks[k].parent_id
                    /\ tasks[j].parent_id # NULL
                    /\ tasks[j].parent_id \notin
                           AncestorsOf(rows, tasks[k].parent_id)

C31_Witness ==
    /\ lastRun[1].outcome = "done"
    /\ Len(lastRun[1].tasks) = 1
    /\ lastRun[1].tasks[1].parent_id \notin
           QueuedIds(lastRun[1].queue) \cup {NULL}

\* C32: for a given table the task list _optimize returns is the same for
\* every order of the tasks in the queue and every order in which the ids
\* are taken from the working list.
C32_OrderFree ==
    lastRun[1].outcome # "none" =>
        \A id_list \in Orders(QueuedIds(lastRun[1].queue) \ {NULL}) :
            RunTasks(Optimize(rows, lastRun[1].queue, id_list))
                = lastRun[1].tasks

\* the value row i is sorted by
SortValue(rs, sorting_field, i) ==
    IF sorting_field = "priority" THEN rs[i].priority ELSE rs[i].name

\* C33: a rebuild numbers siblings in the order of the sorting_field, equal
\* values in the order of their ids, for the sorting_field priority and for
\* a custom one.
C33_TiesById ==
    Asked("update_path") /\ ops[Len(ops)].node = NULL =>
        LET call == ops[Len(ops)]
            b == call.before
        IN  \A i, j \in Ids(rows) :
                /\ b[i].parent = b[j].parent
                /\ \/ SortValue(b, call.sorting_field, i)
                         < SortValue(b, call.sorting_field, j)
                   \/ /\ SortValue(b, call.sorting_field, i)
                           = SortValue(b, call.sorting_field, j)
                      /\ i < j
                => rows[i].priority < rows[j].priority

\* C34: with sorting_direction DESC, the priorities a full rebuild assigns
\* are the positions of the nodes in get_children and get_roots: the k-th
\* node returned has priority k - 1.
C34_DescAgrees ==
    /\ Asked("get_children")
    /\ Len(ops) >= 2
    /\ ops[Len(ops) - 1].op = "update_path"
    /\ ops[Len(ops) - 1].node = NULL
    /\ ops[Len(ops)].sorting_direction = "DESC"
    =>  LET result == ops[Len(ops)].result
        IN  \A k \in 1..Len(result) : rows[result[k]].priority = k - 1

\* C35: when set() returns, total_size is at most cache_limit.
C35_ByteBounded ==
    Asked("set") /\ ops[1].returned => cache.total_size <= ObjLimit

\* the keys filed in prefix_index
Indexed(c) == UNION {c.prefix_index[p] : p \in DOMAIN c.prefix_index}

\* C40: whenever no call is in progress, sizes, order, key_prefix and
\* prefix_index track the same keys, each once in order and present in the
\* backend, and total_size is the sum of their sizes.
C40_Bookkeeping ==
    (\A w \in Writers : pc[w] = "idle") =>
        /\ DOMAIN cache.sizes = Range(cache.order)
        /\ DOMAIN cache.sizes = DOMAIN cache.key_prefix
        /\ DOMAIN cache.sizes = Indexed(cache)
        /\ Len(cache.order) = Cardinality(Range(cache.order))
        /\ DOMAIN cache.sizes \subseteq DOMAIN cache.backend
        /\ cache.total_size = SumSizes(cache.sizes, DOMAIN cache.sizes)

\* C36: a move_node call made while a child of the node's old or new parent
\* is locked by another connection raises and leaves rows and queue alone.
C36_LockSurfaces ==
    [][(ops' # ops /\ ops'[Len(ops')].op = "move_node"
           /\ ops'[Len(ops')].contended) =>
           /\ ops'[Len(ops')].raised
           /\ rows' = rows
           /\ queue' = queue]_vars

\* C37: a run() that has returned did not raise and left its queue empty.
C37_RunReturns ==
    \A w \in Writers :
        lastRun[w].outcome \notin {"none", "open"} =>
            /\ lastRun[w].outcome # "raised"
            /\ queue[w] = <<>>

\* C39: two save() calls creating nodes never hold the same primary key, and
\* a save() that has ended inserted a row of its own without raising.
C39_UniqueIds ==
    /\ \A w1, w2 \in Writers :
           w1 # w2 => DOMAIN txn[w1] \cap DOMAIN txn[w2] = {}
    /\ Asked("save") => ops[Len(ops)].inserted

\* C38: after run() has returned, its connection has no transaction open
\* and holds no row lock.
C38_TransactionClosed ==
    \A w \in Writers :
        lastRun[w].outcome \in {"done", "empty", "skipped", "error"} =>
            /\ pc[w] # "in_transaction"
            /\ \A i \in DOMAIN locks : locks[i].owner # w

====
